---------------------------- MODULE Spec2Model ----------------------------
(***************************************************************************)
(* The Ethereum consensus light client of the relayer                      *)
(* (crates/relayer/src/light_client/eth.rs): the store, the verifier, the  *)
(* applier, sync, the advance loop and the public queries.                 *)
(*                                                                         *)
(* Abstractions.  A header is its slot and a tag for its content: "canon"  *)
(* (the header the beacon chain has at that slot), "forged" (any other     *)
(* content) and "default" (all fields zero).  A sync committee is the      *)
(* number of the period it serves (DefaultCommittee and ForgedCommittee    *)
(* are no period's committee).  A Merkle branch is the pair (root, leaf)   *)
(* it proves; a signature is the pair (committee, header) it was made by   *)
(* and over.  The participation bit vector is its number of set bits.      *)
(* Slot arithmetic is scaled down: an epoch, a period, the cache capacity  *)
(* and the request sizes are small numbers, named after the constants      *)
(* they stand for.                                                         *)
(***************************************************************************)
EXTENDS Integers, Sequences, FiniteSets, TLC

(* ------------------------------- bounds -------------------------------- *)

\* Highest slot the chain reaches in the model.
MaxSlot == 3

\* Slots per epoch: 32 in calc_epoch, scaled down.
SLOTS_PER_EPOCH == 2

\* Slots per sync-committee period: 32 * 256 in calc_sync_period, scaled down.
SLOTS_PER_PERIOD == 3

\* Capacity of the finality-update cache: 32 * 1024 in the source, scaled down.
MAX_CACHED_UPDATES == 2

\* Updates asked of get_updates by sync: 128 in the source, scaled down.
MAX_REQUEST_LIGHT_CLIENT_UPDATES == 2

\* Slots fetched per round by get_finality_updates_from: 64 in the source, scaled down.
MAX_REQUEST_UPDATES == 2

\* Most headers emitted by one advance tick: 32 in the source, scaled down.
MAX_EMITTED_HEADERS == 2

\* Largest limit a caller passes to get_finality_updates_from.
MaxLimit == 3

(* ------------------------- program constants --------------------------- *)

\* Size of a sync committee (the 512 of `committee_bits * 3 >= 512 * 2`).
SYNC_COMMITTEE_SIZE == 512

(* ------------------------------- data ---------------------------------- *)

Slots == 0..MaxSlot

\* Option<T>: None is the empty sequence, Some(x) the one-element sequence.
None == << >>

Some(x) == << x >>

is_some(o) == o # << >>

is_none(o) == o = << >>

unwrap(o) == o[1]

\* Header of the ics07_eth types, reduced to its slot and a content tag.
Header(slot, body) == [slot |-> slot, body |-> body]

\* Header::default()
DefaultHeader == Header(0, "default")

\* The header the beacon chain has at slot s.
Canon(s) == Header(s, "canon")

\* Header::is_empty: every field but the slot is default.
is_empty(h) == h.body = "default"

\* tree_hash_root of a header: injective on the modelled headers.
tree_hash_root(h) == << "root", h.slot, h.body >>

\* SyncCommittee::default()
DefaultCommittee == 0 - 1

\* A committee that no period of the chain has.
ForgedCommittee == 0 - 2

\* A Merkle branch proving `leaf` under the state root of header `root`.
Branch(root, leaf) == [root |-> root, leaf |-> leaf]

\* No committee at all: the leaf of an empty committee branch.
NoCommittee == 0 - 3

\* Vec::default() as a finality branch: an empty branch proves no header.
DefaultFinalityBranch == Branch(DefaultHeader, Header(0, "nothing"))

\* Vec::default() as a committee branch: an empty branch proves no committee.
DefaultCommitteeBranch == Branch(DefaultHeader, NoCommittee)

\* An aggregate signature of the participating members of `committee` over `header`.
Signature(committee, header) == [committee |-> committee, header |-> header]

\* SignatureBytes::default(): the all-zero signature.
ZeroSignature == Signature(DefaultCommittee, DefaultHeader)

calc_epoch(slot) == slot \div SLOTS_PER_EPOCH

calc_sync_period(slot) == slot \div SLOTS_PER_PERIOD

(* --------------------------- crypto primitives ------------------------- *)

is_finality_proof_valid(attested_header, finalized_header, finality_branch) ==
    finality_branch = Branch(attested_header, finalized_header)

is_next_committee_proof_valid(attested_header, next_committee, next_committee_branch) ==
    next_committee_branch = Branch(attested_header, next_committee)

is_current_committee_proof_valid(header, current_committee, current_committee_branch) ==
    current_committee_branch = Branch(header, current_committee)

\* verify_sync_committee_signature: the aggregate of the participating keys of
\* `committee` verifies `signature` over the signing root of `attested_header`.
verify_sync_committee_signature(committee, attested_header, signature) ==
    signature = Signature(committee, attested_header)

(* ------------------------------ updates -------------------------------- *)

\* Update of the ics07_eth types.
Update(att, nsc, nscb, fin, fb, bits, sig, sig_slot) ==
    [ attested_header            |-> att,
      next_sync_committee        |-> nsc,
      next_sync_committee_branch |-> nscb,
      finalized_header           |-> fin,
      finality_branch            |-> fb,
      sync_committee_bits        |-> bits,
      sync_committee_signature   |-> sig,
      signature_slot             |-> sig_slot ]

\* FinalityUpdate of the ics07_eth types: an Update without the next committee.
FinalityUpdate(att, fin, fb, bits, sig, sig_slot) ==
    [ attested_header            |-> att,
      finalized_header           |-> fin,
      finality_branch            |-> fb,
      sync_committee_bits        |-> bits,
      sync_committee_signature   |-> sig,
      signature_slot             |-> sig_slot ]

\* GenericUpdate::from(&Update): every optional field is Some.
GenericFromUpdate(u) ==
    [ attested_header            |-> u.attested_header,
      next_sync_committee        |-> Some(u.next_sync_committee),
      next_sync_committee_branch |-> Some(u.next_sync_committee_branch),
      finalized_header           |-> Some(u.finalized_header),
      finality_branch            |-> Some(u.finality_branch),
      sync_committee_bits        |-> u.sync_committee_bits,
      sync_committee_signature   |-> u.sync_committee_signature,
      signature_slot             |-> u.signature_slot ]

\* GenericUpdate::from(&FinalityUpdate): no next committee, no branch for it.
GenericFromFinalityUpdate(u) ==
    [ attested_header            |-> u.attested_header,
      next_sync_committee        |-> None,
      next_sync_committee_branch |-> None,
      finalized_header           |-> Some(u.finalized_header),
      finality_branch            |-> Some(u.finality_branch),
      sync_committee_bits        |-> u.sync_committee_bits,
      sync_committee_signature   |-> u.sync_committee_signature,
      signature_slot             |-> u.signature_slot ]

\* Update::from_finality_update(finality_update, next_sync_committee, branch)
from_finality_update(fu, nsc, nscb) ==
    Update(fu.attested_header, nsc, nscb, fu.finalized_header, fu.finality_branch,
           fu.sync_committee_bits, fu.sync_committee_signature, fu.signature_slot)

\* Update::from_finalized_header(header): every other field is default.
from_finalized_header(h) ==
    Update(DefaultHeader, DefaultCommittee, DefaultCommitteeBranch, h,
           DefaultFinalityBranch, 0, ZeroSignature, 0)

(* ------------------------------- store --------------------------------- *)

\* LightClientStore::default()
DefaultStore ==
    [ finalized_header                 |-> DefaultHeader,
      current_sync_committee           |-> DefaultCommittee,
      next_sync_committee              |-> None,
      next_sync_committee_branch       |-> None,
      previous_max_active_participants |-> 0,
      current_max_active_participants  |-> 0,
      finality_updates                 |-> << >> ]

\* BTreeMap::insert(key, value)
MapInsert(m, k, v) == [x \in DOMAIN m \cup {k} |-> IF x = k THEN v ELSE m[x]]

MinKey(m) == CHOOSE k \in DOMAIN m : \A j \in DOMAIN m : k <= j

MaxKey(m) == CHOOSE k \in DOMAIN m : \A j \in DOMAIN m : k >= j

\* BTreeMap::pop_first()
PopFirst(m) == [x \in DOMAIN m \ {MinKey(m)} |-> m[x]]

(* ------------------------------ verifier ------------------------------- *)

Max(a, b) == IF a >= b THEN a ELSE b

Min(a, b) == IF a <= b THEN a ELSE b

\* update.finalized_header.map(|h| h.slot).unwrap_or(0)
finalized_slot_or_zero(update) ==
    IF is_some(update.finalized_header) THEN unwrap(update.finalized_header).slot ELSE 0

\* valid_time of verify_generic_update; `now` is expected_current_slot().
valid_time(update, now) ==
    /\ now >= update.signature_slot
    /\ update.signature_slot > update.attested_header.slot
    /\ update.attested_header.slot >= finalized_slot_or_zero(update)

\* A variant of the period rule that accepts a signature of the next period
\* whether the store has a next committee or not.
valid_period_without_committee(st, update) ==
    LET store_period == calc_sync_period(st.finalized_header.slot)
        update_sig_period == calc_sync_period(update.signature_slot)
    IN  update_sig_period = store_period \/ update_sig_period = store_period + 1

\* valid_period of verify_generic_update.
valid_period(st, update) ==
    LET store_period == calc_sync_period(st.finalized_header.slot)
        update_sig_period == calc_sync_period(update.signature_slot)
    IN  IF is_some(st.next_sync_committee)
        THEN update_sig_period = store_period \/ update_sig_period = store_period + 1
        ELSE update_sig_period = store_period

\* update_has_next_committee of verify_generic_update.
update_has_next_committee(st, update) ==
    /\ is_none(st.next_sync_committee)
    /\ is_some(update.next_sync_committee)
    /\ calc_sync_period(update.attested_header.slot)
           = calc_sync_period(st.finalized_header.slot)

\* A variant of the relevance rule that lets the finalized header itself through.
is_not_relevant_strict(st, update) ==
    /\ update.attested_header.slot < st.finalized_header.slot
    /\ ~update_has_next_committee(st, update)

\* The condition of the NotRelevant rejection (stated twice in the source).
is_not_relevant(st, update) ==
    /\ update.attested_header.slot <= st.finalized_header.slot
    /\ ~update_has_next_committee(st, update)

\* The finality proof is present and does not hold.
finality_proof_fails(update) ==
    /\ is_some(update.finalized_header)
    /\ is_some(update.finality_branch)
    /\ ~is_finality_proof_valid(update.attested_header,
                                unwrap(update.finalized_header),
                                unwrap(update.finality_branch))

\* The next-committee proof is present and does not hold.
next_committee_proof_fails(update) ==
    /\ is_some(update.next_sync_committee)
    /\ is_some(update.finality_branch)
    /\ ~is_next_committee_proof_valid(update.attested_header,
                                      unwrap(update.next_sync_committee),
                                      unwrap(update.next_sync_committee_branch))

\* The committee whose keys must have signed: the current one for a signature
\* of the store's period, else the next one.
signing_committee(st, update) ==
    IF calc_sync_period(update.signature_slot) = calc_sync_period(st.finalized_header.slot)
    THEN st.current_sync_committee
    ELSE unwrap(st.next_sync_committee)

\* The aggregate signature does not verify.
signature_fails(st, update) ==
    ~verify_sync_committee_signature(signing_committee(st, update),
                                     update.attested_header,
                                     update.sync_committee_signature)

\* A variant of the verifier that checks the period before the time.
verify_period_first(st, update, now) ==
    IF update.sync_committee_bits = 0 THEN "InsufficientParticipation"
    ELSE IF ~valid_period(st, update) THEN "InvalidPeriod"
    ELSE IF ~valid_time(update, now) THEN "InvalidTimestamp"
    ELSE IF is_not_relevant(st, update) THEN "NotRelevant"
    ELSE IF finality_proof_fails(update) THEN "InvalidFinalityProof"
    ELSE IF next_committee_proof_fails(update) THEN "InvalidNextSyncCommitteeProof"
    ELSE IF signature_fails(st, update) THEN "InvalidSignature"
    ELSE "Ok"

\* A variant of the verifier that checks the signature before the proofs.
verify_signature_first(st, update, now) ==
    IF update.sync_committee_bits = 0 THEN "InsufficientParticipation"
    ELSE IF ~valid_time(update, now) THEN "InvalidTimestamp"
    ELSE IF ~valid_period(st, update) THEN "InvalidPeriod"
    ELSE IF is_not_relevant(st, update) THEN "NotRelevant"
    ELSE IF signature_fails(st, update) THEN "InvalidSignature"
    ELSE IF finality_proof_fails(update) THEN "InvalidFinalityProof"
    ELSE IF next_committee_proof_fails(update) THEN "InvalidNextSyncCommitteeProof"
    ELSE "Ok"

\* ConsensusClient::verify_generic_update: "Ok" or the name of the error.
verify_generic_update(st, update, now) ==
    IF update.sync_committee_bits = 0 THEN "InsufficientParticipation"
    ELSE IF ~valid_time(update, now) THEN "InvalidTimestamp"
    ELSE IF ~valid_period(st, update) THEN "InvalidPeriod"
    ELSE IF is_not_relevant(st, update) THEN "NotRelevant"
    ELSE IF finality_proof_fails(update) THEN "InvalidFinalityProof"
    ELSE IF next_committee_proof_fails(update) THEN "InvalidNextSyncCommitteeProof"
    ELSE IF signature_fails(st, update) THEN "InvalidSignature"
    ELSE "Ok"

verify_update(st, update, now) ==
    verify_generic_update(st, GenericFromUpdate(update), now)

verify_finality_update(st, update, now) ==
    verify_generic_update(st, GenericFromFinalityUpdate(update), now)

(* ------------------------------- applier ------------------------------- *)

has_sync_update(update) ==
    is_some(update.finalized_header) /\ is_some(update.finality_branch)

has_finality_update(update) ==
    is_some(update.finalized_header) /\ is_some(update.finality_branch)

\* update_has_finalized_next_committee of apply_generic_update.
update_has_finalized_next_committee(st, update) ==
    /\ is_none(st.next_sync_committee)
    /\ has_sync_update(update)
    /\ has_finality_update(update)
    /\ calc_sync_period(finalized_slot_or_zero(update))
           = calc_sync_period(update.attested_header.slot)

\* update_is_newer of apply_generic_update.
update_is_newer(st, update) ==
    finalized_slot_or_zero(update) > st.finalized_header.slot

\* A variant of should_apply_update whose majority is the floor of two thirds.
should_apply_floor(st, update) ==
    LET has_majority ==
            update.sync_committee_bits >= (SYNC_COMMITTEE_SIZE * 2) \div 3
        good_update == update_is_newer(st, update)
                           \/ update_has_finalized_next_committee(st, update)
    IN  has_majority /\ good_update

\* should_apply_update of apply_generic_update.
should_apply_update(st, update) ==
    LET has_majority == update.sync_committee_bits * 3 >= SYNC_COMMITTEE_SIZE * 2
        good_update == update_is_newer(st, update)
                           \/ update_has_finalized_next_committee(st, update)
    IN  has_majority /\ good_update

\* A variant of the rotation test that also fires inside the store's period.
finalized_in_period_or_next(st, update) ==
    calc_sync_period(finalized_slot_or_zero(update))
        >= calc_sync_period(st.finalized_header.slot)

\* update_finalized_period == store_period + 1
finalized_in_next_period(st, update) ==
    calc_sync_period(finalized_slot_or_zero(update))
        = calc_sync_period(st.finalized_header.slot) + 1

\* A variant of the rotation that keeps the store's next committee.
rotate_keeping_next(st, update) ==
    [st EXCEPT !.current_sync_committee = unwrap(st.next_sync_committee),
               !.previous_max_active_participants = st.current_max_active_participants,
               !.current_max_active_participants = 0]

\* A variant of the rotation that leaves the participation maxima as they are.
rotate_keeping_maxima(st, update) ==
    [st EXCEPT !.current_sync_committee = unwrap(st.next_sync_committee),
               !.next_sync_committee = update.next_sync_committee,
               !.next_sync_committee_branch = update.next_sync_committee_branch]

\* A variant of the rotation that takes the update's committee and forgets
\* its branch.
rotate_dropping_branch(st, update) ==
    [st EXCEPT !.current_sync_committee = unwrap(st.next_sync_committee),
               !.next_sync_committee = update.next_sync_committee,
               !.next_sync_committee_branch = None,
               !.previous_max_active_participants = st.current_max_active_participants,
               !.current_max_active_participants = 0]

\* A variant of the rotation that keeps the current committee.
rotate_keeping_current(st, update) ==
    [st EXCEPT !.next_sync_committee = update.next_sync_committee,
               !.next_sync_committee_branch = update.next_sync_committee_branch,
               !.previous_max_active_participants = st.current_max_active_participants,
               !.current_max_active_participants = 0]

\* The rotation of the committees: the body of the `else if` of apply_generic_update.
rotate_committees(st, update) ==
    [st EXCEPT !.current_sync_committee = unwrap(st.next_sync_committee),
               !.next_sync_committee = update.next_sync_committee,
               !.next_sync_committee_branch = update.next_sync_committee_branch,
               !.previous_max_active_participants = st.current_max_active_participants,
               !.current_max_active_participants = 0]

\* A variant of the header test that takes the update's header whatever its slot.
finalized_header_differs(st, update) ==
    finalized_slot_or_zero(update) # st.finalized_header.slot

\* update_finalized_slot > self.store.finalized_header.slot, inside the applied branch.
finalized_header_advances(st, update) ==
    finalized_slot_or_zero(update) > st.finalized_header.slot

\* A variant of the checkpoint test that takes every slot.
is_any_slot(slot) == slot >= 0

\* self.store.finalized_header.slot % 32 == 0
is_checkpoint_slot(slot) == slot % SLOTS_PER_EPOCH = 0

\* A variant of apply_generic_update that skips the should_apply_update test.
apply_generic_update_always(c, update) ==
    LET st == c.store
        st1 == [st EXCEPT !.current_max_active_participants =
                              Max(st.current_max_active_participants,
                                  update.sync_committee_bits)]
        st2 == IF is_none(st1.next_sync_committee)
               THEN [st1 EXCEPT !.next_sync_committee = update.next_sync_committee,
                                !.next_sync_committee_branch =
                                    update.next_sync_committee_branch]
               ELSE st1
    IN  [c EXCEPT !.store = st2]

\* ConsensusClient::apply_generic_update on the client `c` (its store and
\* last_checkpoint): the client after the call.
apply_generic_update(c, update) ==
    LET st == c.store
        st1 == [st EXCEPT !.current_max_active_participants =
                              Max(st.current_max_active_participants,
                                  update.sync_committee_bits)]
        st2 == IF is_none(st1.next_sync_committee)
               THEN [st1 EXCEPT !.next_sync_committee = update.next_sync_committee,
                                !.next_sync_committee_branch =
                                    update.next_sync_committee_branch]
               ELSE IF finalized_in_next_period(st1, update)
               THEN rotate_committees(st1, update)
               ELSE st1
        moves == finalized_header_advances(st2, update)
        st3 == IF moves
               THEN [st2 EXCEPT !.finalized_header = unwrap(update.finalized_header)]
               ELSE st2
        checkpoint ==
            IF moves /\ is_checkpoint_slot(st3.finalized_header.slot)
            THEN Some(tree_hash_root(st3.finalized_header))
            ELSE c.last_checkpoint
    IN  IF should_apply_update(st, update)
        THEN [c EXCEPT !.store = st3, !.last_checkpoint = checkpoint]
        ELSE [c EXCEPT !.store = st1]

\* A variant of apply_update that leaves the client as it is.
apply_nothing(c, update) == c

apply_update(c, update) == apply_generic_update(c, GenericFromUpdate(update))

apply_finality_update(c, update) ==
    apply_generic_update(c, GenericFromFinalityUpdate(update))

(* -------------------------------- state -------------------------------- *)

VARIABLES
    store,               \* ConsensusClient.store
    last_checkpoint,     \* ConsensusClient.last_checkpoint
    new_block_emitors,   \* ConsensusClient.new_block_emitors, with each channel's contents
    new_client_emitors,  \* ConsensusClient.new_client_emitors, with each channel's contents
    pc,                  \* where the task holding the client lock stands
    local,               \* the local variables of the operation in progress
    ret,                 \* the last operation that returned: its name and its outcome
    shutdown             \* a shutdown command was sent on the control channel

vars == << store, last_checkpoint, new_block_emitors, new_client_emitors,
           pc, local, ret, shutdown >>

\* The slot of the header whose root is the configured initial_checkpoint.
CheckpointSlot == 0

\* ConsensusClient.initial_checkpoint
initial_checkpoint == tree_hash_root(Canon(CheckpointSlot))

\* The client as apply_generic_update sees it.
Client == [store |-> store, last_checkpoint |-> last_checkpoint]

NoLocal == [prev |-> 0, fu |-> None, pending |-> << >>, entry |-> None]

Ret(op, result) == [op |-> op, result |-> result]

(* ------------------------- the untrusted endpoint ---------------------- *)

\* Numbers of set participation bits the endpoint's updates carry.
BitCounts == {341, 342}

\* A FinalityUpdate the chain produced: attested slot a, finalized slot f,
\* signature slot s, b participants of the committee of s's period.
ChainFinalityUpdate(a, f, s, b) ==
    FinalityUpdate(Canon(a), Canon(f), Branch(Canon(a), Canon(f)), b,
                   Signature(calc_sync_period(s), Canon(a)), s)

\* An Update the chain produced: the next committee proved under the attested
\* header is the committee of the period after the attested header's.
ChainUpdate(a, f, s, b) ==
    Update(Canon(a), calc_sync_period(a) + 1,
           Branch(Canon(a), calc_sync_period(a) + 1),
           Canon(f), Branch(Canon(a), Canon(f)), b,
           Signature(calc_sync_period(s), Canon(a)), s)

\* The tamperings of the tests: a default finalized header, a zeroed signature,
\* a next committee with a zeroed key.
TamperFinalized(u) == [u EXCEPT !.finalized_header = DefaultHeader]

TamperSignature(u) == [u EXCEPT !.sync_committee_signature = ZeroSignature]

TamperCommittee(u) == [u EXCEPT !.next_sync_committee = ForgedCommittee]

\* (attested, finalized, signature) slots of the updates the endpoint serves.
ServedSlots ==
    { << a, f, a + 1 >> : a \in Slots, f \in Slots } \cap
    { t \in Slots \X Slots \X (1..MaxSlot + 1) : t[2] \in {t[1] - 1, t[1]} }

ServedFinalityUpdates ==
    { ChainFinalityUpdate(t[1], t[2], t[3], b) : t \in ServedSlots, b \in BitCounts }

ServedUpdates ==
    { ChainUpdate(t[1], t[2], t[3], b) : t \in ServedSlots, b \in BitCounts }

\* What get_finality_update answers: an error (None) or a finality update.
FinalityResponses ==
    {None} \cup { Some(u) : u \in ServedFinalityUpdates }
           \cup { Some(TamperSignature(ChainFinalityUpdate(a, a, a + 1, 342))) : a \in Slots }

\* The lists of at most n served updates, one per period, in ascending order
\* of period.
RECURSIVE UpdateLists(_)
UpdateLists(n) ==
    IF n = 0 THEN { << >> }
    ELSE LET shorter == UpdateLists(n - 1)
         IN  shorter \cup UNION {
                 { Append(l, u) :
                     u \in { v \in ServedUpdates :
                                \/ l = << >>
                                \/ calc_sync_period(v.attested_header.slot)
                                      > calc_sync_period(l[Len(l)].attested_header.slot) } } :
                 l \in { x \in shorter : Len(x) = n - 1 } }

\* What get_updates answers: an error (None) or a list of updates.
UpdatesResponses ==
    {None} \cup { Some(l) : l \in UpdateLists(MAX_REQUEST_LIGHT_CLIENT_UPDATES) }

\* What get_bootstrap answers: an error (None) or a Bootstrap.
Bootstrap(header, committee, branch) ==
    [ header |-> header, current_sync_committee |-> committee,
      current_sync_committee_branch |-> branch ]

ChainBootstrap(s) ==
    Bootstrap(Canon(s), calc_sync_period(s), Branch(Canon(s), calc_sync_period(s)))

BootstrapResponses ==
    {None} \cup { Some(ChainBootstrap(s)) : s \in {CheckpointSlot, CheckpointSlot + 1} }
           \cup { Some([ChainBootstrap(s) EXCEPT !.current_sync_committee = ForgedCommittee]) :
                      s \in {CheckpointSlot, CheckpointSlot + 1} }

\* expected_current_slot() at the moment an update is verified.
Times == {1, MaxSlot + 1}

\* What get_header answers for every slot during one advance tick: the
\* chain's header, except that one slot or two successive slots have no
\* header (they were skipped), or that the call for one slot fails.
HeaderOracles ==
    { [s \in Slots |-> IF s \in N THEN "none" ELSE "canon"] :
        N \in {{}} \cup { {s} : s \in Slots } \cup { {s, s + 1} : s \in Slots } }
    \cup { [s \in Slots |-> IF s = e THEN "err" ELSE "canon"] : e \in Slots }

\* The same answers, and those of an endpoint that answers one slot with a
\* header that is not the chain's: get_header checks no proof.
UntrustedHeaderOracles ==
    HeaderOracles
        \cup { [s \in Slots |-> IF s = f THEN "forged" ELSE "canon"] : f \in Slots }

\* What get_header answers during one public query: the same for every slot.
QueryOracles == { [s \in Slots |-> answer] : answer \in {"canon", "none", "err"} }

(* --------------------------- cache and emission ------------------------ *)

\* Result<T>: Err(e) or Ok(v).
Err == [ok |-> FALSE, val |-> None]

Ok(v) == [ok |-> TRUE, val |-> v]

\* A variant of get_finality_update whose sentinel for a missing slot is
\* Header::default(), without the slot asked for.
get_finality_update_default(st, slot, oracle) ==
    IF slot \in DOMAIN st.finality_updates
    THEN Ok(Some(st.finality_updates[slot]))
    ELSE IF slot < st.finalized_header.slot
    THEN CASE oracle[slot] = "canon" -> Ok(Some(from_finalized_header(Canon(slot))))
           [] oracle[slot] = "none"  -> Ok(Some(from_finalized_header(DefaultHeader)))
           [] OTHER                  -> Err
    ELSE Ok(None)

\* ConsensusClient::get_finality_update(slot) -> Result<Option<Update>>;
\* `oracle` is what get_header answers.
get_finality_update(st, slot, oracle) ==
    IF slot \in DOMAIN st.finality_updates
    THEN Ok(Some(st.finality_updates[slot]))
    ELSE IF slot < st.finalized_header.slot
    THEN CASE oracle[slot] = "canon"  -> Ok(Some(from_finalized_header(Canon(slot))))
           [] oracle[slot] = "forged" -> Ok(Some(from_finalized_header(Header(slot, "forged"))))
           [] oracle[slot] = "none"   -> Ok(Some(from_finalized_header(Header(slot, "default"))))
           [] OTHER                   -> Err
    ELSE Ok(None)

\* A variant of the insertion that forgets the entries the cache held.
cache_only_this_update(st, update) ==
    [st EXCEPT !.finality_updates =
                   MapInsert(<< >>, update.finalized_header.slot, update)]

\* ConsensusClient::cache_finality_update
cache_finality_update(st, update) ==
    [st EXCEPT !.finality_updates = MapInsert(@, update.finalized_header.slot, update)]

\* The loop of store_finality_update: for slot in from..=end, get the update of
\* the slot and insert it. An error leaves what was inserted so far.
RECURSIVE FillGaps(_, _, _, _)
FillGaps(st, from, end, oracle) ==
    IF from > end THEN Ok(st)
    ELSE LET r == get_finality_update(st, from, oracle)
         IN  IF ~r.ok THEN [ok |-> FALSE, val |-> st]
             ELSE FillGaps(IF is_some(r.val)
                           THEN [st EXCEPT !.finality_updates =
                                               MapInsert(@, from, unwrap(r.val))]
                           ELSE st,
                           from + 1, end, oracle)

\* The trimming loop of store_finality_update.
RECURSIVE Trim(_)
Trim(m) ==
    IF Cardinality(DOMAIN m) > MAX_CACHED_UPDATES THEN Trim(PopFirst(m)) ELSE m

\* ConsensusClient::store_finality_update: [ok, val], val the store afterwards.
store_finality_update(st, finality_update, keep_continuos, oracle) ==
    IF is_none(st.next_sync_committee) THEN Ok(st)
    ELSE LET filled ==
                 IF keep_continuos /\ DOMAIN st.finality_updates # {}
                 THEN FillGaps(st,
                               st.finality_updates[MaxKey(st.finality_updates)]
                                   .finalized_header.slot + 1,
                               finality_update.finalized_header.slot, oracle)
                 ELSE Ok(st)
             update == from_finality_update(finality_update,
                                            unwrap(st.next_sync_committee),
                                            unwrap(st.next_sync_committee_branch))
             inserted == [filled.val EXCEPT !.finality_updates =
                              MapInsert(@, update.finalized_header.slot, update)]
         IN  IF ~filled.ok THEN filled
             ELSE Ok([inserted EXCEPT !.finality_updates = Trim(@)])

\* The first loop of start_emiting_headers: the finalized headers of the
\* slots from..end-1 that have an update.
RECURSIVE CollectHeaders(_, _, _, _, _)
CollectHeaders(st, from, end, oracle, acc) ==
    IF from >= end THEN Ok(acc)
    ELSE LET r == get_finality_update(st, from, oracle)
         IN  IF ~r.ok THEN Err
             ELSE CollectHeaders(st, from + 1, end, oracle,
                                 IF is_some(r.val)
                                 THEN Append(acc, unwrap(r.val).finalized_header)
                                 ELSE acc)

\* A variant of the send that gives up at the first closed receiver, as a
\* loop leaving on the first error would.
SendUntilClosed(emitors, msg) ==
    [i \in DOMAIN emitors |->
        IF \E j \in 1..i : emitors[j].closed THEN emitors[i]
        ELSE [emitors[i] EXCEPT !.queue = Append(@, msg)]]

\* UnboundedSender::send on every emitor: a closed receiver drops the value.
SendAll(emitors, msg) ==
    [i \in DOMAIN emitors |->
        IF emitors[i].closed THEN emitors[i]
        ELSE [emitors[i] EXCEPT !.queue = Append(@, msg)]]

\* The same send on the channels of the initial header, which advance repeats
\* at every tick: the contents of a channel are kept up to repetition, a
\* header equal to the last one queued leaving the queue as it is, so that an
\* unbounded channel stays finite.
SendAllOnce(emitors, msg) ==
    [i \in DOMAIN emitors |->
        IF \/ emitors[i].closed
           \/ emitors[i].queue # << >>
                /\ emitors[i].queue[Len(emitors[i].queue)] = msg
        THEN emitors[i]
        ELSE [emitors[i] EXCEPT !.queue = Append(@, msg)]]

\* A variant of begin_slot without the cap on the headers emitted at once.
begin_slot_uncapped(previous_stored_finalized_slot, finalized_slot) ==
    previous_stored_finalized_slot

\* A variant of begin_slot that forgets the previously stored finalized slot.
begin_slot_by_cap(previous_stored_finalized_slot, finalized_slot) ==
    Max(finalized_slot - MAX_EMITTED_HEADERS, 0)

\* begin_slot of advance: max(previous_stored_finalized_slot,
\* finalized_header.slot.saturating_sub(32)).
begin_slot(previous_stored_finalized_slot, finalized_slot) ==
    Max(previous_stored_finalized_slot,
        Max(finalized_slot - MAX_EMITTED_HEADERS, 0))

\* A variant of start_emiting_headers that never adds the header of end_slot.
start_emiting_headers_open(st, start_slot, end_slot, oracle) ==
    LET first == CollectHeaders(st, start_slot, end_slot, oracle, << >>)
    IN  IF ~first.ok THEN Err
        ELSE IF \A i \in DOMAIN first.val : is_empty(first.val[i])
        THEN Ok(<< >>)
        ELSE first

\* ConsensusClient::start_emiting_headers: [ok, val], val the batch to send
\* (empty when nothing is sent).
start_emiting_headers(st, start_slot, end_slot, oracle) ==
    LET first == CollectHeaders(st, start_slot, end_slot, oracle, << >>)
        last == IF calc_epoch(start_slot) = calc_epoch(end_slot)
                THEN get_finality_update(st, end_slot, oracle)
                ELSE Ok(None)
        finalized_headers ==
            IF is_some(last.val)
            THEN Append(first.val, unwrap(last.val).finalized_header)
            ELSE first.val
    IN  IF ~first.ok \/ ~last.ok THEN Err
        ELSE IF \A i \in DOMAIN finalized_headers : is_empty(finalized_headers[i])
        THEN Ok(<< >>)
        ELSE Ok(finalized_headers)

(* ------------------------------- Init ---------------------------------- *)

\* ConsensusClient::new, as LightClient::from_config calls it.
Init ==
    /\ store = DefaultStore
    /\ last_checkpoint = None
    /\ new_block_emitors = << >>
    /\ new_client_emitors = << >>
    /\ pc = "init"
    /\ local = NoLocal
    /\ ret = Ret("new", "Ok")
    /\ shutdown = FALSE

\* A step of sync that fails: LightClient::bootstrap returns the error and
\* does not spawn the advance loop.
SyncFails(error) ==
    /\ pc' = "failed"
    /\ local' = NoLocal
    /\ ret' = Ret("sync", error)

(* -------------------------------- sync --------------------------------- *)

\* The store bootstrap installs (eth.rs:214-222).
bootstrap_store(b) ==
    [ finalized_header                 |-> b.header,
      current_sync_committee           |-> b.current_sync_committee,
      next_sync_committee              |-> None,
      next_sync_committee_branch       |-> None,
      previous_max_active_participants |-> 0,
      current_max_active_participants  |-> 0,
      finality_updates                 |-> << >> ]

\* A variant of bootstrap that checks the committee proof before the hash.
bootstrap_proof_first(st, resp) ==
    IF is_none(resp) THEN [verdict |-> "RpcError", store |-> st]
    ELSE LET b == unwrap(resp)
         IN  IF ~is_current_committee_proof_valid(
                     b.header, b.current_sync_committee,
                     b.current_sync_committee_branch)
             THEN [verdict |-> "InvalidCurrentSyncCommitteeProof", store |-> st]
             ELSE IF tree_hash_root(b.header) # initial_checkpoint
             THEN [verdict |-> "InvalidHeaderHash", store |-> st]
             ELSE [verdict |-> "Ok", store |-> bootstrap_store(b)]

\* ConsensusClient::bootstrap on the store `st`, the endpoint answering `resp`
\* to get_bootstrap: the verdict and the store after the call.
bootstrap(st, resp) ==
    IF is_none(resp) THEN [verdict |-> "RpcError", store |-> st]
    ELSE LET b == unwrap(resp)
         IN  IF tree_hash_root(b.header) # initial_checkpoint
             THEN [verdict |-> "InvalidHeaderHash", store |-> st]
             ELSE IF ~is_current_committee_proof_valid(
                          b.header, b.current_sync_committee,
                          b.current_sync_committee_branch)
             THEN [verdict |-> "InvalidCurrentSyncCommitteeProof", store |-> st]
             ELSE [verdict |-> "Ok", store |-> bootstrap_store(b)]

\* sync: self.bootstrap().await?, its first step.
SyncBootstrap ==
    /\ pc = "init"
    /\ \E resp \in BootstrapResponses :
         LET out == bootstrap(store, resp)
         IN  /\ store' = out.store
             /\ IF out.verdict # "Ok"
                THEN SyncFails(out.verdict)
                ELSE pc' = "sync_updates" /\ UNCHANGED << local, ret >>
    /\ UNCHANGED << last_checkpoint, new_block_emitors, new_client_emitors, shutdown >>

\* sync: get_updates(current_period, MAX_REQUEST_LIGHT_CLIENT_UPDATES).
SyncGetUpdates ==
    /\ pc = "sync_updates"
    /\ \E resp \in UpdatesResponses :
         IF is_none(resp)
         THEN SyncFails("RpcError")
         ELSE /\ pc' = "sync_apply"
              /\ local' = [local EXCEPT !.pending = unwrap(resp)]
              /\ UNCHANGED ret
    /\ UNCHANGED << store, last_checkpoint, new_block_emitors, new_client_emitors,
                    shutdown >>

\* sync: one turn of `for update in updates`: verify, apply, insert in the cache.
SyncApplyUpdate ==
    /\ pc = "sync_apply"
    /\ local.pending # << >>
    /\ \E now \in Times :
         LET update == Head(local.pending)
             verdict == verify_update(store, update, now)
             applied == apply_update(Client, update)
         IN  IF verdict # "Ok"
             THEN SyncFails(verdict) /\ UNCHANGED << store, last_checkpoint >>
             ELSE /\ store' = [applied.store EXCEPT !.finality_updates =
                                   MapInsert(@, update.finalized_header.slot, update)]
                  /\ last_checkpoint' = applied.last_checkpoint
                  /\ local' = [local EXCEPT !.pending = Tail(@)]
                  /\ UNCHANGED << pc, ret >>
    /\ UNCHANGED << new_block_emitors, new_client_emitors, shutdown >>

\* sync: the latest finality update, then LightClient::bootstrap spawns the loop.
SyncFinality ==
    /\ pc = "sync_apply"
    /\ local.pending = << >>
    /\ \E resp \in FinalityResponses, now \in Times :
         IF is_none(resp)
         THEN SyncFails("RpcError") /\ UNCHANGED << store, last_checkpoint >>
         ELSE LET finality_update == unwrap(resp)
                  previous_stored_finalized_slot == store.finalized_header.slot
                  verdict == verify_finality_update(store, finality_update, now)
                  applied == apply_finality_update(Client, finality_update)
                  stored == store_finality_update(applied.store, finality_update, FALSE,
                                                  [s \in Slots |-> "err"])
              IN  IF verdict # "Ok"
                  THEN SyncFails(verdict) /\ UNCHANGED << store, last_checkpoint >>
                  ELSE /\ store' =
                            IF applied.store.finalized_header.slot
                                   > previous_stored_finalized_slot
                            THEN stored.val ELSE applied.store
                       /\ last_checkpoint' = applied.last_checkpoint
                       /\ pc' = "idle"
                       /\ local' = NoLocal
                       /\ ret' = Ret("sync", "Ok")
    /\ UNCHANGED << new_block_emitors, new_client_emitors, shutdown >>

(* --------------------------- the advance loop -------------------------- *)

\* An advance tick that returns "Ok" or "Err": the loop logs an error, whatever
\* its kind, and sleeps.
AdvanceReturns(result) ==
    /\ pc' = "idle"
    /\ local' = NoLocal
    /\ ret' = Ret("advance", result)

\* advance, to the first await after the finality update: fetch the finality
\* update, verify it, apply it.
AdvanceFinality ==
    /\ pc = "idle"
    /\ \E resp \in FinalityResponses, now \in Times :
         IF is_none(resp)
         THEN AdvanceReturns("Err") /\ UNCHANGED << store, last_checkpoint >>
         ELSE LET finality_update == unwrap(resp)
                  verdict == verify_finality_update(store, finality_update, now)
                  applied == apply_finality_update(Client, finality_update)
              IN  IF verdict # "Ok"
                  THEN AdvanceReturns("Err") /\ UNCHANGED << store, last_checkpoint >>
                  ELSE /\ store' = applied.store
                       /\ last_checkpoint' = applied.last_checkpoint
                       /\ pc' = IF is_none(applied.store.next_sync_committee)
                                THEN "advance_committee" ELSE "advance_emit"
                       /\ local' = [ prev    |-> store.finalized_header.slot,
                                     fu      |-> Some(finality_update),
                                     pending |-> << >>,
                                     entry   |-> Some(store) ]
                       /\ UNCHANGED ret
    /\ UNCHANGED << new_block_emitors, new_client_emitors, shutdown >>

\* A variant of the committee block in which an update that fails
\* verification fails the tick.
committee_block_strict(c, resp, now) ==
    IF is_none(resp) THEN [outcome |-> "error", client |-> c]
    ELSE LET updates == unwrap(resp)
         IN  IF Len(updates) # 1
             THEN [outcome |-> "continue", client |-> c]
             ELSE IF verify_update(c.store, updates[1], now) = "Ok"
             THEN [outcome |-> "return", client |-> apply_update(c, updates[1])]
             ELSE [outcome |-> "error", client |-> c]

\* The block `if self.store.next_sync_committee.is_none()` of advance on the
\* client `c`, the endpoint answering `resp` to get_updates: the `?` returns
\* the error, an only update that verifies is applied and the tick returns,
\* anything else falls through to the emission.
committee_block(c, resp, now) ==
    IF is_none(resp) THEN [outcome |-> "error", client |-> c]
    ELSE LET updates == unwrap(resp)
         IN  IF Len(updates) = 1 /\ verify_update(c.store, updates[1], now) = "Ok"
             THEN [outcome |-> "return", client |-> apply_update(c, updates[1])]
             ELSE [outcome |-> "continue", client |-> c]

\* advance, while the next sync committee is absent: fetch one update of the
\* current period; when it verifies, apply it and return.
AdvanceCommittee ==
    /\ pc = "advance_committee"
    /\ \E resp \in UpdatesResponses, now \in Times :
         LET out == committee_block(Client, resp, now)
         IN  /\ store' = out.client.store
             /\ last_checkpoint' = out.client.last_checkpoint
             /\ CASE out.outcome = "error"  -> AdvanceReturns("Err")
                  [] out.outcome = "return" -> AdvanceReturns("Ok")
                  [] OTHER -> pc' = "advance_emit" /\ UNCHANGED << local, ret >>
    /\ UNCHANGED << new_block_emitors, new_client_emitors, shutdown >>

\* advance, from the re-emission of the initial header to the end: store the
\* finality update (filling the gaps) and emit the new finalized headers;
\* `oracles` is what the endpoints may answer to get_header during the tick.
AdvanceEmitWith(oracles) ==
    /\ pc = "advance_emit"
    /\ \E oracle \in oracles :
         LET previous_stored_finalized_slot == local.prev
             finality_update == unwrap(local.fu)
             advanced == store.finalized_header.slot > previous_stored_finalized_slot
             stored == IF advanced
                       THEN store_finality_update(store, finality_update, TRUE, oracle)
                       ELSE Ok(store)
             emitted == IF advanced /\ stored.ok
                        THEN start_emiting_headers(
                                 stored.val,
                                 begin_slot(previous_stored_finalized_slot,
                                            stored.val.finalized_header.slot),
                                 stored.val.finalized_header.slot, oracle)
                        ELSE Ok(<< >>)
         IN  /\ new_client_emitors' =
                    IF DOMAIN store.finality_updates # {}
                    THEN SendAllOnce(new_client_emitors,
                                     store.finality_updates[MinKey(store.finality_updates)]
                                         .finalized_header)
                    ELSE new_client_emitors
             /\ store' = stored.val
             /\ new_block_emitors' =
                    IF stored.ok /\ emitted.ok /\ emitted.val # << >>
                    THEN SendAll(new_block_emitors, emitted.val)
                    ELSE new_block_emitors
             /\ AdvanceReturns(IF stored.ok /\ emitted.ok THEN "Ok" ELSE "Err")
    /\ UNCHANGED << last_checkpoint, shutdown >>

\* The tick with endpoints that answer get_header with the chain's header,
\* with no header, or with an error.
AdvanceEmit == AdvanceEmitWith(HeaderOracles)

(* --------------------------- public queries ---------------------------- *)

\* A variant of the loop that keeps the guard it took to compute the sleep
\* duration while it sleeps: the lock is free only outside the loop.
LockFreeOutsideLoop == pc \in {"init", "failed"}

\* The lock on the consensus client is free: no sync or advance is under way
\* (before LightClient::bootstrap, between two ticks, or after a failed sync).
LockFree == pc \in {"init", "idle", "failed"}

\* The lock on the consensus client is held: LightClient::bootstrap takes it
\* for the whole of sync, and the loop takes it for the whole of each advance
\* (`client.lock().await.advance().await`).
LockHeld == ~LockFree

\* The RPC call the task holding the lock is awaiting: sync awaits get_updates
\* then get_finality_update, advance awaits get_updates while the next
\* committee is absent, then the get_header calls of gap filling and emission.
AwaitedRpc ==
    CASE pc = "sync_updates" -> "get_updates"
      [] pc = "sync_apply" /\ local.pending = << >> -> "get_finality_update"
      [] pc = "advance_committee" -> "get_updates"
      [] pc = "advance_emit" -> "get_header"
      [] OTHER -> "none"

\* LightClient::get_finality_update(finality_slot): the result is cached.
GetFinalityUpdate ==
    /\ LockFree
    /\ \E finality_slot \in 0..MaxSlot + 1, oracle \in QueryOracles :
         LET update == get_finality_update(store, finality_slot, oracle)
         IN  IF ~update.ok
             THEN /\ ret' = Ret("get_finality_update", "RpcError")
                  /\ UNCHANGED store
             ELSE /\ store' = IF is_some(update.val)
                              THEN cache_finality_update(store, unwrap(update.val))
                              ELSE store
                  /\ ret' = Ret("get_finality_update", "Ok")
    /\ UNCHANGED << last_checkpoint, new_block_emitors, new_client_emitors, pc, local,
                    shutdown >>

\* try_join_all over begin..begin+n-1 of get_finality_update, flattened: the
\* updates found, or an error when one of the calls fails.
RECURSIVE FetchRound(_, _, _, _, _)
FetchRound(st, from, end, oracle, acc) ==
    IF from >= end THEN Ok(acc)
    ELSE LET r == get_finality_update(st, from, oracle)
         IN  IF ~r.ok THEN Err
             ELSE FetchRound(st, from + 1, end, oracle,
                             IF is_some(r.val) THEN Append(acc, unwrap(r.val)) ELSE acc)

\* A variant of the loop that goes on to the next round after a short one.
RECURSIVE FetchRoundsNoBreak(_, _, _, _, _)
FetchRoundsNoBreak(st, begin, count, oracle, updates) ==
    IF count <= 0 THEN Ok(updates)
    ELSE LET n == Min(count, MAX_REQUEST_UPDATES)
             round == FetchRound(st, begin, begin + n, oracle, << >>)
         IN  IF ~round.ok THEN Err
             ELSE FetchRoundsNoBreak(st, begin + n, count - n, oracle,
                                     updates \o round.val)

\* The `while count > 0` loop of get_finality_updates_from.
RECURSIVE FetchRounds(_, _, _, _, _)
FetchRounds(st, begin, count, oracle, updates) ==
    IF count <= 0 THEN Ok(updates)
    ELSE LET n == Min(count, MAX_REQUEST_UPDATES)
             round == FetchRound(st, begin, begin + n, oracle, << >>)
             fetched == Len(round.val)
         IN  IF ~round.ok THEN Err
             ELSE IF fetched < n THEN Ok(updates \o round.val)
             ELSE FetchRounds(st, begin + fetched, count - fetched, oracle,
                              updates \o round.val)

\* updates.iter().for_each(|update| consensus_client.cache_finality_update(update))
RECURSIVE CacheAll(_, _)
CacheAll(st, updates) ==
    IF updates = << >> THEN st
    ELSE CacheAll(cache_finality_update(st, Head(updates)), Tail(updates))

\* LightClient::get_finality_updates_from(finality_slot, limit)
GetFinalityUpdatesFrom ==
    /\ LockFree
    /\ \E finality_slot \in 0..MaxSlot + 1, limit \in 0..MaxLimit,
          oracle \in QueryOracles :
         LET updates == FetchRounds(store, finality_slot, limit, oracle, << >>)
         IN  IF ~updates.ok
             THEN /\ ret' = Ret("get_finality_updates_from", "RpcError")
                  /\ UNCHANGED store
             ELSE /\ store' = CacheAll(store, updates.val)
                  /\ ret' = Ret("get_finality_updates_from", "Ok")
    /\ UNCHANGED << last_checkpoint, new_block_emitors, new_client_emitors, pc, local,
                    shutdown >>

\* Updates a caller of LightClient::verify submits: what the endpoint serves,
\* the tamperings of the tests, alone and in pairs, updates without
\* participants and updates with a displaced signature slot.
SubmittedUpdates ==
    LET signed == { u \in ServedUpdates : u.sync_committee_bits = 342 }
    IN  ServedUpdates
            \cup { TamperFinalized(u) : u \in signed }
            \cup { TamperSignature(u) : u \in signed }
            \cup { TamperCommittee(u) : u \in signed }
            \cup { TamperFinalized(TamperCommittee(u)) : u \in signed }
            \cup { TamperFinalized(TamperSignature(u)) : u \in signed }
            \cup { TamperCommittee(TamperSignature(u)) : u \in signed }
            \cup { [u EXCEPT !.sync_committee_bits = 0] : u \in signed }
            \cup { [u EXCEPT !.signature_slot = s] : u \in signed, s \in 0..MaxSlot + 1 }

\* A variant of LightClient::verify that applies the update it has verified.
VerifyAndApply ==
    /\ LockFree
    /\ \E update \in SubmittedUpdates, now \in Times :
         LET verdict == verify_update(store, update, now)
             applied == apply_update(Client, update)
         IN  /\ ret' = Ret("verify", verdict)
             /\ store' = IF verdict = "Ok" THEN applied.store ELSE store
             /\ last_checkpoint' =
                    IF verdict = "Ok" THEN applied.last_checkpoint ELSE last_checkpoint
    /\ UNCHANGED << new_block_emitors, new_client_emitors, pc, local, shutdown >>

\* LightClient::verify: verify_update on the update of the client state.
Verify ==
    /\ LockFree
    /\ \E update \in SubmittedUpdates, now \in Times :
         ret' = Ret("verify", verify_update(store, update, now))
    /\ UNCHANGED << store, last_checkpoint, new_block_emitors, new_client_emitors, pc,
                    local, shutdown >>

(* ----------------------------- subscribers ---------------------------- *)

\* Most consumers that subscribe.
MaxSubscribers == 1

\* LightClient::subscribe: it takes the lock and pushes the senders of two
\* new channels, whose receivers the consumer keeps; `limit` bounds the
\* consumers.
SubscribeWithin(limit) ==
    /\ LockFree
    /\ Len(new_block_emitors) < limit
    /\ new_client_emitors' =
           Append(new_client_emitors, [closed |-> FALSE, queue |-> << >>])
    /\ new_block_emitors' =
           Append(new_block_emitors, [closed |-> FALSE, queue |-> << >>])
    /\ UNCHANGED << store, last_checkpoint, pc, local, ret, shutdown >>

Subscribe == SubscribeWithin(MaxSubscribers)

\* The consumers that still hold their receivers.
LiveSubscribers == { e \in DOMAIN new_block_emitors : ~new_block_emitors[e].closed }

\* subscribe, by a consumer that comes when the consumers before it have
\* ended: the senders of the ended consumers stay in the two lists.
SubscribeSeveral ==
    /\ LiveSubscribers = {}
    /\ SubscribeWithin(MaxSubscribers + 1)

\* A consumer ends and drops the two receivers subscribe gave it: the
\* channels are closed, what they held is gone, and every later send to them
\* fails. The consumer runs on its own thread and needs no lock for this.
DropReceiver ==
    /\ \E e \in LiveSubscribers :
         /\ new_block_emitors' =
                [new_block_emitors EXCEPT ![e] = [closed |-> TRUE, queue |-> << >>]]
         /\ new_client_emitors' =
                [new_client_emitors EXCEPT ![e] = [closed |-> TRUE, queue |-> << >>]]
    /\ UNCHANGED << store, last_checkpoint, pc, local, ret, shutdown >>

NextClose ==
    \/ SyncBootstrap
    \/ SyncGetUpdates
    \/ SyncApplyUpdate
    \/ SyncFinality
    \/ AdvanceFinality
    \/ AdvanceCommittee
    \/ AdvanceEmit
    \/ SubscribeSeveral
    \/ DropReceiver

\* The client with consumers that may drop their receivers.
SpecClose == Init /\ [][NextClose]_vars

(* ------------------------- the control channel ------------------------ *)

\* A shutdown command is sent to the advance loop. The loop of
\* LightClient::bootstrap has no receiver for it: nothing reads `shutdown`.
SendShutdown ==
    /\ pc = "idle"
    /\ ~shutdown
    /\ shutdown' = TRUE
    /\ UNCHANGED << store, last_checkpoint, new_block_emitors, new_client_emitors, pc,
                    local, ret >>

(* ------------------------- NimbusRpc::get_header ----------------------- *)

\* Most endpoints in the pool NimbusRpc.rpc.
MaxEndpoints == 3

\* What one endpoint does with GET /eth/v1/beacon/headers/{slot}: it serves
\* the chain's header or another header, it answers the error body
\* {code: 404, message} of a slot without a header, it answers another error
\* body such as {code: 500, message}, it answers a body that is not a
\* HeaderResponse, or the request fails.
EndpointAnswers ==
    {"header", "other_header", "not_found", "error_body", "undecodable", "unreachable"}

\* The answers of the endpoints of a pool, in the order of NimbusRpc.rpc.
Pools == UNION { [1..n -> EndpointAnswers] : n \in 1..MaxEndpoints }

\* Err(e) of an RPC call: the error names what went wrong.
RpcErr(e) == [ok |-> FALSE, val |-> << e >>]

\* HeaderResponse::Response::header() on a decoded body: the header when the
\* body has `data`, None when it has not (every field of Response is optional,
\* so an error body decodes, whatever its code).
header(answer, slot) ==
    CASE answer = "header"       -> Some(Canon(slot))
      [] answer = "other_header" -> Some(Header(slot, "forged"))
      [] OTHER                   -> None

\* NimbusRpc::get_header_inner(rpc, slot): send()? and json() failures are
\* errors, a decoded body gives its header().
get_header_inner(answer, slot) ==
    IF answer \in {"undecodable", "unreachable"}
    THEN RpcErr(answer)
    ELSE Ok(header(answer, slot))

\* `if let Ok(Some(header)) = ... { return Ok(Some(header)) }` over the
\* endpoints from index i on: the first Some, or None.
RECURSIVE first_some(_, _, _)
first_some(rpc, slot, i) ==
    IF i > Len(rpc) THEN None
    ELSE LET r == get_header_inner(rpc[i], slot)
         IN  IF r.ok /\ is_some(r.val) THEN r.val ELSE first_some(rpc, slot, i + 1)

\* find_none of get_header: an endpoint after the first answered Ok(None).
find_none(rpc, slot) ==
    \E i \in 2..Len(rpc) :
        LET r == get_header_inner(rpc[i], slot) IN r.ok /\ is_none(r.val)

\* A variant of get_header that asks the first endpoint only.
get_header_first_only(rpc, slot) == get_header_inner(rpc[1], slot)

\* NimbusRpc::get_header(slot) over the pool `rpc`.
get_header(rpc, slot) ==
    LET result == get_header_inner(rpc[1], slot)
        others == first_some(rpc, slot, 2)
    IN  IF result.ok /\ is_some(result.val) THEN result
        ELSE IF result.ok
        THEN Ok(others)
        ELSE IF is_some(others) THEN Ok(others)
        ELSE IF find_none(rpc, slot) THEN Ok(None)
        ELSE result

\* A NimbusRpc with its pool, about to be asked the header of a slot.
InitRpc ==
    /\ store = DefaultStore
    /\ last_checkpoint = None
    /\ new_block_emitors = << >>
    /\ new_client_emitors = << >>
    /\ pc = "get_header"
    /\ local \in { [rpc |-> p, slot |-> s] : p \in Pools, s \in Slots }
    /\ ret = Ret("new", "Ok")
    /\ shutdown = FALSE

\* rpc.get_header(slot).await
GetHeader ==
    /\ pc = "get_header"
    /\ pc' = "returned"
    /\ ret' = Ret("get_header", get_header(local.rpc, local.slot))
    /\ UNCHANGED << store, last_checkpoint, new_block_emitors, new_client_emitors,
                    local, shutdown >>

(* ---------------------- EthChainConfig::fork_version -------------------- *)

\* The largest activation epoch of the configurations examined.
MaxForkEpoch == 2

\* config.forks: the activation epoch and the version of each fork. The
\* configuration is read from a file and the epochs are not validated.
Forks(genesis_epoch, altair_epoch, bellatrix_epoch) ==
    [ genesis   |-> [epoch |-> genesis_epoch,   fork_version |-> "genesis"],
      altair    |-> [epoch |-> altair_epoch,    fork_version |-> "altair"],
      bellatrix |-> [epoch |-> bellatrix_epoch, fork_version |-> "bellatrix"] ]

ForksConfigs ==
    { Forks(g, a, b) : g \in {0, 1}, a \in 0..MaxForkEpoch, b \in 0..MaxForkEpoch }

\* The slots fork_version is asked about: up to the end of the epoch after the
\* last activation.
ForkSlots == 0..((MaxForkEpoch + 2) * SLOTS_PER_EPOCH - 1)

\* A variant of fork_version in which a fork is in force only after its
\* activation epoch.
fork_version_after(forks, slot) ==
    LET epoch == slot \div SLOTS_PER_EPOCH
    IN  IF epoch > forks.bellatrix.epoch THEN forks.bellatrix.fork_version
        ELSE IF epoch > forks.altair.epoch THEN forks.altair.fork_version
        ELSE forks.genesis.fork_version

\* EthChainConfig::fork_version
fork_version(forks, slot) ==
    LET epoch == slot \div SLOTS_PER_EPOCH
    IN  IF epoch >= forks.bellatrix.epoch THEN forks.bellatrix.fork_version
        ELSE IF epoch >= forks.altair.epoch THEN forks.altair.fork_version
        ELSE forks.genesis.fork_version

\* A configuration, about to be asked the fork version of a slot.
InitFork ==
    /\ store = DefaultStore
    /\ last_checkpoint = None
    /\ new_block_emitors = << >>
    /\ new_client_emitors = << >>
    /\ pc = "fork_version"
    /\ local \in { [forks |-> f, slot |-> s] : f \in ForksConfigs, s \in ForkSlots }
    /\ ret = Ret("new", "Ok")
    /\ shutdown = FALSE

\* self.config.fork_version(slot), as compute_committee_sign_root calls it.
ForkVersion ==
    /\ pc = "fork_version"
    /\ pc' = "returned"
    /\ ret' = Ret("fork_version", fork_version(local.forks, local.slot))
    /\ UNCHANGED << store, last_checkpoint, new_block_emitors, new_client_emitors,
                    local, shutdown >>

NextFork == ForkVersion

\* One call of fork_version on one configuration.
SpecFork == InitFork /\ [][NextFork]_vars

(* ------------------------------- Spec ---------------------------------- *)

Next ==
    \/ SyncBootstrap
    \/ SyncGetUpdates
    \/ SyncApplyUpdate
    \/ SyncFinality
    \/ AdvanceFinality
    \/ AdvanceCommittee
    \/ AdvanceEmit
    \/ GetFinalityUpdate
    \/ GetFinalityUpdatesFrom

\* The client, its advance loop and the callers of the cache queries.
Spec == Init /\ [][Next]_vars

NextVerify ==
    \/ SyncBootstrap
    \/ SyncGetUpdates
    \/ SyncApplyUpdate
    \/ SyncFinality
    \/ AdvanceFinality
    \/ AdvanceCommittee
    \/ AdvanceEmit
    \/ Verify

\* The client, its advance loop and the callers of LightClient::verify.
SpecVerify == Init /\ [][NextVerify]_vars

NextShutdown ==
    \/ SyncBootstrap
    \/ SyncGetUpdates
    \/ SyncApplyUpdate
    \/ SyncFinality
    \/ AdvanceFinality
    \/ AdvanceCommittee
    \/ AdvanceEmit
    \/ SendShutdown

\* The client, its advance loop and the sender of the shutdown command.
SpecShutdown == Init /\ [][NextShutdown]_vars


\* The client with a consumer of its two channels.
NextEmit ==
    \/ SyncBootstrap
    \/ SyncGetUpdates
    \/ SyncApplyUpdate
    \/ SyncFinality
    \/ AdvanceFinality
    \/ AdvanceCommittee
    \/ AdvanceEmit
    \/ Subscribe

\* The steps of an advance tick whose RPC call succeeded: the finality update
\* was fetched (and it verified), the period update was fetched, the headers
\* were fetched.
FinalityFetched == AdvanceFinality /\ pc' # "idle"

CommitteeFetched ==
    AdvanceCommittee /\ (pc' = "advance_emit" \/ ret' = Ret("advance", "Ok"))

HeadersFetched == AdvanceEmit /\ ret' = Ret("advance", "Ok")

\* The loop of LightClient::bootstrap runs advance for ever, and the RPC calls
\* of a tick succeed again and again: a step that is possible again and again
\* with its RPC call succeeding is taken with the call succeeding.
SpecEmit ==
    /\ Init /\ [][NextEmit]_vars
    /\ SF_vars(FinalityFetched)
    /\ SF_vars(CommitteeFetched)
    /\ SF_vars(HeadersFetched)

\* The client alone, its loop running for ever with RPC calls that succeed
\* again and again.
NextTick ==
    \/ SyncBootstrap
    \/ SyncGetUpdates
    \/ SyncApplyUpdate
    \/ SyncFinality
    \/ AdvanceFinality
    \/ AdvanceCommittee
    \/ AdvanceEmit

SpecTick ==
    /\ Init /\ [][NextTick]_vars
    /\ SF_vars(FinalityFetched)
    /\ SF_vars(CommitteeFetched)
    /\ SF_vars(HeadersFetched)

NextRpc == GetHeader

SpecRpc == InitRpc /\ [][NextRpc]_vars
(* ------------------------------ properties ----------------------------- *)

\* C1: across sync and advance, every step, each holding at most one
\* apply_generic_update, leaves store.finalized_header.slot equal or larger.
C1_FinalizedSlotNeverDecreases ==
    [][store'.finalized_header.slot >= store.finalized_header.slot]_vars

\* An advance tick has returned Ok with the header beyond the checkpoint and
\* the next committee known.
C1_Advanced ==
    /\ pc = "idle"
    /\ ret = Ret("advance", "Ok")
    /\ store.finalized_header.slot > CheckpointSlot
    /\ is_some(store.next_sync_committee)

\* C2: in every reachable state the finality-update cache holds at most
\* MAX_CACHED_UPDATES entries.
C2_CacheWithinCapacity ==
    Cardinality(DOMAIN store.finality_updates) <= MAX_CACHED_UPDATES

\* A step that is an advance tick returning an error.
AdvanceFailed ==
    /\ pc \in {"idle", "advance_committee", "advance_emit"}
    /\ pc' = "idle"
    /\ ret' = Ret("advance", "Err")

\* C3: when an advance tick returns an error, the store is the one the tick
\* started with.
C3_FailedTickLeavesStore ==
    [][AdvanceFailed =>
           store' = (IF pc = "idle" THEN store ELSE unwrap(local.entry))]_vars

\* A step that is a public query returning.
QueryReturned ==
    /\ LockFree
    /\ pc' = pc
    /\ ret'.op \in {"get_finality_update", "get_finality_updates_from"}

C5_NoTickAfterShutdown ==
    [][shutdown => ~(pc = "idle" /\ (pc' # "idle" \/ ret' # ret))]_vars

\* C6, as stated: an update that verifies is NotRelevant against the store
\* obtained by applying it.
C6_ReverifiedIsNotRelevant ==
    \A u \in SubmittedUpdates, now \in Times :
        verify_update(store, u, now) = "Ok"
            => verify_update(apply_update(Client, u).store, u, now) = "NotRelevant"

\* C6, amended: against the store obtained by applying it, an update that
\* verifies is NotRelevant exactly when its attested slot is at most the new
\* finalized slot and the new store has a next sync committee; otherwise it
\* verifies again.
C6_ReverifiedIsNotRelevantOrOk ==
    \A u \in SubmittedUpdates, now \in Times :
        verify_update(store, u, now) = "Ok" =>
            LET after == apply_update(Client, u).store
                again == verify_update(after, u, now)
            IN  /\ again \in {"NotRelevant", "Ok"}
                /\ again = "NotRelevant" <=>
                       /\ u.attested_header.slot <= after.finalized_header.slot
                       /\ after.next_sync_committee # None

\* LightClient::verify has accepted an update, and some update that verifies
\* is NotRelevant once applied while another verifies again.
C6_BothOutcomes ==
    /\ ret = Ret("verify", "Ok")
    /\ \E u \in SubmittedUpdates, now \in Times :
           /\ verify_update(store, u, now) = "Ok"
           /\ verify_update(apply_update(Client, u).store, u, now) = "NotRelevant"
    /\ \E u \in SubmittedUpdates, now \in Times :
           /\ verify_update(store, u, now) = "Ok"
           /\ verify_update(apply_update(Client, u).store, u, now) = "Ok"

\* C7: store.next_sync_committee is absent or the committee of the period
\* after the period of store.finalized_header.slot.
C7_NextCommitteeIsOfNextPeriod ==
    store.next_sync_committee # None =>
        unwrap(store.next_sync_committee)
            = (store.finalized_header.slot \div SLOTS_PER_PERIOD) + 1

\* The store is in the second period, with that period's committee as current
\* and the third period's as next.
C7_RotatedWithNext ==
    /\ store.finalized_header.slot \div SLOTS_PER_PERIOD = 1
    /\ store.current_sync_committee = 1
    /\ store.next_sync_committee = Some(2)

\* C8: after bootstrap, current_sync_committee changes only in a step in which
\* the period of store.finalized_header.slot rises by exactly 1, and in every
\* such step it becomes the previous next_sync_committee while
\* next_sync_committee and its branch become those of the applied update (of
\* the head of sync's list, else of the finality update, which has none).
C8_RotationAtPeriodBoundary ==
    [][pc # "init" =>
           LET before == store.finalized_header.slot \div SLOTS_PER_PERIOD
               after == store'.finalized_header.slot \div SLOTS_PER_PERIOD
           IN  /\ store'.current_sync_committee # store.current_sync_committee
                      => after = before + 1
               /\ after # before => after = before + 1
               /\ after = before + 1 =>
                      /\ store.next_sync_committee # None
                      /\ store'.current_sync_committee = store.next_sync_committee[1]
                      /\ IF pc = "sync_apply" /\ local.pending # << >>
                         THEN /\ store'.next_sync_committee =
                                     << local.pending[1].next_sync_committee >>
                              /\ store'.next_sync_committee_branch =
                                     << local.pending[1].next_sync_committee_branch >>
                         ELSE /\ store'.next_sync_committee = None
                              /\ store'.next_sync_committee_branch = None]_vars

\* The store is in the second period with that period's committee as current
\* and no next committee: a finality update rotated the committees.
C8_RotatedByFinalityUpdate ==
    /\ store.finalized_header.slot \div SLOTS_PER_PERIOD = 1
    /\ store.current_sync_committee = 1
    /\ store.next_sync_committee = None

\* The updates the verifier is given: those of LightClient::verify and the
\* finality updates of the endpoint.
GenericInputs ==
    { GenericFromUpdate(u) : u \in SubmittedUpdates }
        \cup { GenericFromFinalityUpdate(unwrap(r)) : r \in FinalityResponses \ {None} }

\* C9: the verifier returns InsufficientParticipation exactly for zero bits;
\* else InvalidTimestamp exactly when now >= signature slot > attested slot >=
\* finalized slot fails; else InvalidPeriod exactly when the signature period
\* is neither the store's nor, the store having a next committee, the one
\* after; else NotRelevant exactly when the attested slot is at most the
\* store's finalized slot and the update does not supply the store's missing
\* next committee for the store's period.
C9_FirstFourRulesInOrder ==
    \A update \in GenericInputs, now \in Times :
        LET verdict == verify_generic_update(store, update, now)
            a == update.attested_header.slot
            f == IF update.finalized_header = None
                 THEN 0 ELSE update.finalized_header[1].slot
            s == update.signature_slot
            P == store.finalized_header.slot \div SLOTS_PER_PERIOD
            no_bits == update.sync_committee_bits = 0
            bad_time == ~(now >= s /\ s > a /\ a >= f)
            bad_period ==
                ~(\/ s \div SLOTS_PER_PERIOD = P
                  \/ store.next_sync_committee # None /\ s \div SLOTS_PER_PERIOD = P + 1)
            supplies == /\ store.next_sync_committee = None
                        /\ update.next_sync_committee # None
                        /\ a \div SLOTS_PER_PERIOD = P
            stale == a <= store.finalized_header.slot /\ ~supplies
        IN  /\ verdict = "InsufficientParticipation" <=> no_bits
            /\ verdict = "InvalidTimestamp" <=> ~no_bits /\ bad_time
            /\ verdict = "InvalidPeriod" <=> ~no_bits /\ ~bad_time /\ bad_period
            /\ verdict = "NotRelevant" <=>
                   ~no_bits /\ ~bad_time /\ ~bad_period /\ stale

\* LightClient::verify has rejected an update as NotRelevant against a store
\* that has a next committee.
C9_RejectedNotRelevant ==
    /\ pc = "idle"
    /\ ret = Ret("verify", "NotRelevant")
    /\ store.next_sync_committee # None

\* A step in which an update is rejected: by LightClient::verify, by sync, by
\* the first verification of advance or by its second.
Rejected ==
    \/ LockFree /\ pc' = pc /\ ret'.op = "verify" /\ ret'.result # "Ok"
    \/ pc # "failed" /\ pc' = "failed"
    \/ pc = "idle" /\ pc' = "idle" /\ ret' = Ret("advance", "Err")
    \/ pc = "advance_committee" /\ pc' = "advance_emit"

\* C10: an update past the first four rules is rejected with
\* InvalidFinalityProof exactly when its finality branch does not prove its
\* finalized header, else with InvalidNextSyncCommitteeProof exactly when its
\* committee branch does not prove its next committee, else with
\* InvalidSignature exactly when the signature is not the signing committee's
\* over the attested header; it is accepted exactly when the three hold; and a
\* step that rejects an update leaves the store unchanged.
C10_ProofsThenSignature ==
    /\ [](\A update \in GenericInputs, now \in Times :
              LET verdict == verify_generic_update(store, update, now)
                  past_four == verdict \notin {"InsufficientParticipation",
                                               "InvalidTimestamp", "InvalidPeriod",
                                               "NotRelevant"}
                  bad_finality ==
                      update.finality_branch[1]
                          # Branch(update.attested_header, update.finalized_header[1])
                  bad_committee ==
                      /\ update.next_sync_committee # None
                      /\ update.next_sync_committee_branch[1]
                             # Branch(update.attested_header,
                                      update.next_sync_committee[1])
                  signer ==
                      IF update.signature_slot \div SLOTS_PER_PERIOD
                             = store.finalized_header.slot \div SLOTS_PER_PERIOD
                      THEN store.current_sync_committee
                      ELSE store.next_sync_committee[1]
                  bad_signature ==
                      update.sync_committee_signature
                          # Signature(signer, update.attested_header)
              IN  past_four =>
                      /\ verdict = "InvalidFinalityProof" <=> bad_finality
                      /\ verdict = "InvalidNextSyncCommitteeProof" <=>
                             ~bad_finality /\ bad_committee
                      /\ verdict = "InvalidSignature" <=>
                             ~bad_finality /\ ~bad_committee /\ bad_signature
                      /\ verdict = "Ok" <=>
                             ~bad_finality /\ ~bad_committee /\ ~bad_signature)
    /\ [][Rejected => store' = store]_vars

\* LightClient::verify has rejected an update whose committee proof fails.
C10_RejectedCommitteeProof ==
    /\ pc = "idle"
    /\ ret = Ret("verify", "InvalidNextSyncCommitteeProof")


\* The advance tick has just verified and applied its finality update.
AppliedFinalityUpdate ==
    pc = "idle" /\ pc' \in {"advance_committee", "advance_emit"}

\* C11: when an advance tick applies a verified finality update whose
\* finalized slot is newer than the store's, the store takes the update's
\* finalized header if and only if at least 342 of the 512 bits are set; with
\* fewer (341) the finalized header and the committees stay as they were.
C11_AppliedIffTwoThirds ==
    [][ AppliedFinalityUpdate =>
          LET update == unwrap(local'.fu)
          IN  update.finalized_header.slot > store.finalized_header.slot =>
                IF update.sync_committee_bits >= 342
                THEN store'.finalized_header = update.finalized_header
                ELSE /\ store'.finalized_header = store.finalized_header
                     /\ store'.current_sync_committee = store.current_sync_committee
                     /\ store'.next_sync_committee = store.next_sync_committee
                     /\ store'.next_sync_committee_branch
                            = store.next_sync_committee_branch ]_vars

\* A tick holds a verified finality update of 341 bits whose finalized slot is
\* newer than the store's, and the store has not taken it.
C11_RefusedWith341 ==
    /\ pc \in {"advance_committee", "advance_emit"}
    /\ unwrap(local.fu).sync_committee_bits = 341
    /\ unwrap(local.fu).finalized_header.slot > store.finalized_header.slot
    /\ local.prev = store.finalized_header.slot

\* C12: bootstrap answers InvalidHeaderHash when the root of the bootstrap
\* header is not the initial checkpoint, whatever the committee proof; else
\* InvalidCurrentSyncCommitteeProof when the committee branch does not verify;
\* in both cases the store is left as it was. Only when both checks pass is a
\* store installed, holding the bootstrap header. The first step of sync is
\* that call, and once it has failed the client stays failed: no later step
\* (no advance tick) runs.
C12_BootstrapChecksHashThenProof ==
    /\ [](\A resp \in BootstrapResponses \ {None} :
            LET b == unwrap(resp)
                out == bootstrap(store, resp)
                hash_ok == tree_hash_root(b.header) = initial_checkpoint
                proof_ok == is_current_committee_proof_valid(
                                b.header, b.current_sync_committee,
                                b.current_sync_committee_branch)
            IN  /\ ~hash_ok =>
                       out.verdict = "InvalidHeaderHash" /\ out.store = store
                /\ hash_ok /\ ~proof_ok =>
                       /\ out.verdict = "InvalidCurrentSyncCommitteeProof"
                       /\ out.store = store
                /\ hash_ok /\ proof_ok =>
                       /\ out.verdict = "Ok"
                       /\ out.store.finalized_header = b.header
                       /\ out.store.current_sync_committee = b.current_sync_committee)
    /\ [][ pc = "init" /\ pc' # "init" =>
             \E resp \in BootstrapResponses :
                LET out == bootstrap(store, resp)
                IN  /\ store' = out.store
                    /\ IF out.verdict = "Ok"
                       THEN pc' = "sync_updates"
                       ELSE pc' = "failed" /\ ret' = Ret("sync", out.verdict) ]_vars
    /\ [][ pc = "failed" => pc' = "failed" ]_vars

\* bootstrap has failed on the header hash and the store is the default one.
C12_FailedOnHeaderHash ==
    /\ pc = "failed"
    /\ ret = Ret("sync", "InvalidHeaderHash")
    /\ store = DefaultStore

\* C14: while sync or advance awaits the RPC fetch of period updates or of
\* the finality update, the lock on the consensus client is not held.
C14_NoLockAcrossFetches ==
    AwaitedRpc \in {"get_updates", "get_finality_update"} => ~LockHeld

\* C20: in every reachable state where a caller can take the lock,
\* ConsensusClient::get_finality_update answers None for every slot above the
\* store's finalized slot, whatever get_header would answer.
C20_NoneAboveFinalized ==
    LockFree =>
        \A slot \in Slots, oracle \in QueryOracles :
            slot > store.finalized_header.slot =>
                get_finality_update(store, slot, oracle) = Ok(None)

\* C18: get_header returns the header of the lowest-indexed endpoint that
\* answers Some; when none answers Some it returns None if some endpoint
\* answered None; when every endpoint failed it returns the error of the
\* first endpoint.
C18_GetHeaderFailover ==
    pc = "returned" =>
        LET rpc == local.rpc
            answer(i) == get_header_inner(rpc[i], local.slot)
            somes == { i \in DOMAIN rpc : answer(i).ok /\ answer(i).val # None }
            nones == { i \in DOMAIN rpc : answer(i).ok /\ answer(i).val = None }
        IN  IF somes # {}
            THEN ret.result = answer(MinKey([i \in somes |-> i]))
            ELSE IF nones # {}
            THEN ret.result = Ok(None)
            ELSE ret.result = answer(1)

\* The first endpoint failed, the second has no header, the third served one:
\* get_header returned the third one's header.
C18_FoundAfterErrorAndNone ==
    /\ pc = "returned"
    /\ Len(local.rpc) = 3
    /\ local.rpc[1] = "unreachable"
    /\ local.rpc[2] = "not_found"
    /\ local.rpc[3] = "other_header"
    /\ ret.result = Ok(Some(Header(local.slot, "forged")))

\* C19: get_header does not return None when every endpoint's body failed to
\* decode, and it returns None only when some endpoint of the pool answered
\* that the slot has no header.
C19_NoneOnlyWhenNoHeader ==
    pc = "returned" =>
        /\ (\A i \in DOMAIN local.rpc : local.rpc[i] = "undecodable")
               => ret.result # Ok(None)
        /\ ret.result = Ok(None)
               => \E i \in DOMAIN local.rpc : local.rpc[i] = "not_found"

\* The slots of the headers a consumer was sent on the new-finalized-headers
\* channel, batch after batch.
RECURSIVE ReceivedSlots(_)
ReceivedSlots(queue) ==
    IF queue = << >> THEN << >>
    ELSE [i \in DOMAIN Head(queue) |-> Head(queue)[i].slot]
             \o ReceivedSlots(Tail(queue))

\* C15: for every subscriber, the slots of the headers sent on its
\* new-finalized-headers channel never go backward, within a batch and from
\* one batch to the next.
C15_SlotsNeverGoBackward ==
    \A e \in DOMAIN new_block_emitors :
        LET slots == ReceivedSlots(new_block_emitors[e].queue)
        IN  \A i \in 1..Len(slots) - 1 : slots[i] <= slots[i + 1]

\* A subscriber was sent two batches, the second starting at the slot the
\* first ended with.
C15_TwoBatches ==
    \E e \in DOMAIN new_block_emitors :
        LET queue == new_block_emitors[e].queue
        IN  /\ Len(queue) >= 2
            /\ queue[1][Len(queue[1])].slot = queue[2][1].slot

\* C16: every batch sent on the new-finalized-headers channel holds at most
\* MAX_EMITTED_HEADERS headers (32 in the code).
C16_BatchAtMostCap ==
    \A e \in DOMAIN new_block_emitors :
        \A i \in DOMAIN new_block_emitors[e].queue :
            Len(new_block_emitors[e].queue[i]) <= MAX_EMITTED_HEADERS

\* A subscriber was sent a full batch that begins MAX_EMITTED_HEADERS slots
\* before the finalized slot, above the checkpoint.
C16_FullBatch ==
    \E e \in DOMAIN new_block_emitors :
        \E i \in DOMAIN new_block_emitors[e].queue :
            LET batch == new_block_emitors[e].queue[i]
            IN  /\ Len(batch) = MAX_EMITTED_HEADERS
                /\ batch[1].slot > CheckpointSlot
                /\ batch[1].slot = store.finalized_header.slot - MAX_EMITTED_HEADERS

\* An advance tick has moved the finalized slot to q and is about to store its
\* finality update and emit the headers from the previous finalized slot on.
AboutToStore(q) ==
    /\ pc = "advance_emit"
    /\ store.finalized_header.slot = q
    /\ q > local.prev
    /\ is_some(store.next_sync_committee)

\* The cache holds, for the slot q, a finality update and not the header-only
\* update that gap filling or a query makes for a past slot.
FinalityUpdateCached(q) ==
    /\ q \in DOMAIN store.finality_updates
    /\ store.finality_updates[q].finality_branch # DefaultFinalityBranch

\* C13: once a tick has moved the finalized slot to q, the finality update of
\* q is eventually cached, if not by that tick (it failed) then by a later
\* one, the ticks' RPC calls succeeding again and again; unless the chain of
\* the model ends first.
C13_FailedTickIsRedone ==
    \A q \in Slots :
        AboutToStore(q) ~>
            (FinalityUpdateCached(q) \/ store.finalized_header.slot = MaxSlot)

\* The consumer e has subscribed, sync has succeeded and the cache holds an
\* update, whose finalized header is the initial header.
SubscribedAfterSync(e) ==
    /\ e \in DOMAIN new_client_emitors
    /\ pc \in {"idle", "advance_committee", "advance_emit"}
    /\ DOMAIN store.finality_updates # {}

\* The consumer e was sent a header on the initial-checkpoint channel.
ReceivedInitialHeader(e) ==
    /\ e \in DOMAIN new_client_emitors
    /\ new_client_emitors[e].queue # << >>

\* C17: a consumer that has subscribed after sync is eventually sent the
\* initial header, the advance loop running and the ticks' RPC calls
\* succeeding again and again; unless the chain of the model ends first.
C17_LateSubscriberReceivesInitial ==
    \A e \in 1..MaxSubscribers :
        SubscribedAfterSync(e) ~>
            (ReceivedInitialHeader(e) \/ store.finalized_header.slot = MaxSlot)

\* C21: for a slot below the store's finalized slot that the cache does not
\* hold, get_finality_update never answers None: it fails exactly when
\* get_header fails; else it answers an update that holds nothing but its
\* finalized header, which is the header get_header returned or, when
\* get_header reported the slot as missing, an empty header of the slot asked
\* for.
C21_PastSlotIsSynthesized ==
    \A slot \in Slots, oracle \in QueryOracles \cup HeaderOracles :
        slot < store.finalized_header.slot /\ slot \notin DOMAIN store.finality_updates =>
            LET r == get_finality_update(store, slot, oracle)
            IN  /\ r # Ok(None)
                /\ ~r.ok <=> oracle[slot] = "err"
                /\ r.ok =>
                     LET u == unwrap(r.val)
                     IN  /\ u = from_finalized_header(u.finalized_header)
                         /\ u.finalized_header.slot = slot
                         /\ oracle[slot] = "canon" => u.finalized_header = Canon(slot)
                         /\ oracle[slot] = "none" => is_empty(u.finalized_header)

\* A query has returned and the cache holds the empty-header update of a
\* slot above 0 and below the finalized slot.
C21_SentinelCached ==
    /\ ret.op \in {"get_finality_update", "get_finality_updates_from"}
    /\ \E slot \in DOMAIN store.finality_updates :
          /\ 0 < slot /\ slot < store.finalized_header.slot
          /\ store.finality_updates[slot] = from_finalized_header(Header(slot, "default"))

\* C22: get_finality_updates_from(slot, limit) returns at most `limit`
\* updates, in ascending order of slot. It asks for the slots slot,
\* slot + 1, ... in rounds of at most MAX_REQUEST_UPDATES (64 in the code)
\* slots, the rounds together covering at most `limit` slots, and returns
\* what get_finality_update answers for the slots of the rounds up to the
\* first one in which some slot had no update; it fails when a call fails.
C22_PagedFetch ==
    \A finality_slot \in 0..MaxSlot + 1, limit \in 0..MaxLimit, oracle \in QueryOracles :
        LET r == FetchRounds(store, finality_slot, limit, oracle, << >>)
            asked == finality_slot..finality_slot + limit - 1
            answer(i) == get_finality_update(store, i, oracle)
            round(i) == (i - finality_slot) \div MAX_REQUEST_UPDATES
            kept == { i \in asked :
                        /\ is_some(answer(i).val)
                        /\ \A j \in asked : round(j) < round(i) => is_some(answer(j).val) }
        IN  IF \E i \in asked :
                  /\ ~answer(i).ok
                  /\ \A j \in asked : round(j) < round(i) => is_some(answer(j).val)
            THEN ~r.ok
            ELSE /\ r.ok
                 /\ Len(r.val) <= limit
                 /\ Len(r.val) = Cardinality(kept)
                 /\ \A k \in DOMAIN r.val :
                       /\ r.val[k].finalized_header.slot \in kept
                       /\ r.val[k] = unwrap(answer(r.val[k].finalized_header.slot).val)
                 /\ \A k \in 1..Len(r.val) - 1 :
                       r.val[k].finalized_header.slot < r.val[k + 1].finalized_header.slot

\* get_finality_updates_from has returned and the cache holds the
\* header-only updates of more consecutive slots than one round asks for.
C22_MoreThanOneRound ==
    /\ ret = Ret("get_finality_updates_from", "Ok")
    /\ \E s \in Slots :
          \A i \in s..s + MAX_REQUEST_UPDATES :
              /\ i \in DOMAIN store.finality_updates
              /\ store.finality_updates[i] = from_finalized_header(Canon(i))

\* The finalized slot the claim gives after an update that verified: the
\* larger of the store's and the update's when at least two thirds of the 512
\* bits are set, else the store's.
SlotAfter(st, bits, finalized_slot) ==
    IF bits * 3 >= 512 * 2
    THEN Max(st.finalized_header.slot, finalized_slot)
    ELSE st.finalized_header.slot

\* C23: sync starts from the bootstrap header; every period update that
\* verifies leaves the finalized slot at the larger of the store's and the
\* update's if the update has two thirds of the bits, else where it was; so
\* does the latest finality update; a period update that fails verification
\* makes sync fail, and sync succeeds only with a finality update that
\* verifies.
C23_SyncReachesLargestFinalized ==
    /\ [][ pc = "init" /\ pc' = "sync_updates" =>
             tree_hash_root(store'.finalized_header) = initial_checkpoint ]_vars
    /\ [][ pc = "sync_apply" /\ local.pending # << >> =>
             LET update == Head(local.pending)
             IN  IF \A now \in Times : verify_update(store, update, now) # "Ok"
                 THEN pc' = "failed"
                 ELSE pc' = "sync_apply" =>
                        store'.finalized_header.slot =
                            SlotAfter(store, update.sync_committee_bits,
                                      update.finalized_header.slot) ]_vars
    /\ [](pc = "sync_apply" =>
            \A resp \in FinalityResponses \ {None}, now \in Times :
                LET update == unwrap(resp)
                IN  verify_finality_update(store, update, now) = "Ok" =>
                      apply_finality_update(Client, update).store.finalized_header.slot
                          = SlotAfter(store, update.sync_committee_bits,
                                      update.finalized_header.slot))
    /\ [][ pc = "sync_apply" /\ pc' = "idle" =>
             \E resp \in FinalityResponses \ {None}, now \in Times :
                 /\ verify_finality_update(store, unwrap(resp), now) = "Ok"
                 /\ store'.finalized_header =
                        apply_finality_update(Client, unwrap(resp)).store.finalized_header
           ]_vars

\* sync has succeeded: the finalized slot is above the checkpoint's, and the
\* cache holds a period update of 341 bits whose finalized slot is higher
\* still.
C23_SyncedPastWeakUpdate ==
    /\ pc = "idle"
    /\ ret = Ret("sync", "Ok")
    /\ store.finalized_header.slot > CheckpointSlot
    /\ \E slot \in DOMAIN store.finality_updates :
          /\ slot > store.finalized_header.slot
          /\ store.finality_updates[slot].sync_committee_bits = 341

\* C24: a call of LightClient::verify leaves the store and last_checkpoint as
\* they were, whatever verify_update answers; and a sync or an advance tick
\* that stops at a verification (or at the fetch before it) leaves them as
\* they were too.
C24_VerificationChangesNothing ==
    /\ [][ ret'.op = "verify" /\ ret' # ret =>
             store' = store /\ last_checkpoint' = last_checkpoint ]_vars
    /\ [][ pc = "sync_apply" /\ pc' = "failed" =>
             store' = store /\ last_checkpoint' = last_checkpoint ]_vars
    /\ [][ pc = "idle" /\ pc' = "idle" /\ ret'.op = "advance" =>
             store' = store /\ last_checkpoint' = last_checkpoint ]_vars

\* verify has accepted an update, and the store is still the one sync left
\* at the checkpoint, without a next committee.
C24_AcceptedAndUntouched ==
    /\ pc = "idle"
    /\ ret = Ret("verify", "Ok")
    /\ store.finalized_header.slot = CheckpointSlot
    /\ is_none(store.next_sync_committee)

\* A step of sync or of advance that rotates the committees.
CommitteeRotated ==
    /\ pc \in {"sync_apply", "idle", "advance_committee"}
    /\ store'.current_sync_committee # store.current_sync_committee

\* The generic updates sync and advance may apply.
AppliedGenericUpdates ==
    { GenericFromUpdate(u) : u \in ServedUpdates }
        \cup { GenericFromFinalityUpdate(u) : u \in ServedFinalityUpdates }

\* C25: the two participation maxima never exceed the committee size, and a
\* rotation of the committees leaves current_max_active_participants at 0 and
\* previous_max_active_participants at the value the current maximum had just
\* before the reset (the larger of the old maximum and the bits of the update
\* being applied); nothing but a rotation changes the previous maximum.
C25_ParticipationMaxima ==
    /\ [](/\ store.current_max_active_participants <= SYNC_COMMITTEE_SIZE
          /\ store.previous_max_active_participants <= SYNC_COMMITTEE_SIZE)
    /\ [](\A update \in AppliedGenericUpdates :
            LET after == apply_generic_update(Client, update).store
            IN  IF after.current_sync_committee # store.current_sync_committee
                THEN /\ after.current_max_active_participants = 0
                     /\ after.previous_max_active_participants =
                            Max(store.current_max_active_participants,
                                update.sync_committee_bits)
                ELSE /\ after.previous_max_active_participants =
                            store.previous_max_active_participants
                     /\ after.current_max_active_participants =
                            Max(store.current_max_active_participants,
                                update.sync_committee_bits))
    /\ [][ CommitteeRotated =>
             /\ store'.current_max_active_participants = 0
             /\ \E bits \in BitCounts :
                  store'.previous_max_active_participants =
                      Max(store.current_max_active_participants, bits) ]_vars
    /\ [][ store'.previous_max_active_participants
               # store.previous_max_active_participants =>
             pc = "init" \/ CommitteeRotated ]_vars

\* The committees were rotated by an update of 341 participants when the
\* current maximum was 342.
C25_RotatedKeepingLargerMaximum ==
    /\ store.current_max_active_participants = 0
    /\ store.previous_max_active_participants = 342
    /\ store.finalized_header.slot \in DOMAIN store.finality_updates
    /\ store.finality_updates[store.finalized_header.slot].sync_committee_bits = 341
    /\ store.current_sync_committee = calc_sync_period(CheckpointSlot) + 1

\* A step of sync or of advance that applies an update and moves the store's
\* finalized header to a slot at the start of an epoch.
MovedToEpochStart ==
    /\ pc \in {"sync_apply", "idle", "advance_committee"}
    /\ store'.finalized_header.slot > store.finalized_header.slot
    /\ store'.finalized_header.slot % SLOTS_PER_EPOCH = 0

\* C26: a step sets last_checkpoint, to the tree-hash root of the new
\* finalized header, exactly when it applies an update that moves the store's
\* finalized header to a slot divisible by the epoch length; every other step
\* leaves last_checkpoint as it was.
C26_CheckpointFollowsEpochStarts ==
    [][ IF MovedToEpochStart
        THEN /\ last_checkpoint' = Some(tree_hash_root(store'.finalized_header))
             /\ last_checkpoint' # last_checkpoint
        ELSE last_checkpoint' = last_checkpoint ]_vars

\* The checkpoint was set at the start of an epoch and kept when the
\* finalized header moved on inside the epoch.
C26_CheckpointKeptInsideEpoch ==
    /\ last_checkpoint = Some(tree_hash_root(Canon(SLOTS_PER_EPOCH)))
    /\ store.finalized_header.slot = SLOTS_PER_EPOCH + 1


\* fork_version has answered.
ForkVersionReturned == pc = "returned" /\ ret.op = "fork_version"

\* The forks of the configuration whose activation epoch is at most the epoch
\* of the slot asked about.
ActiveForks ==
    { f \in {"genesis", "altair", "bellatrix"} :
        local.forks[f].epoch <= local.slot \div SLOTS_PER_EPOCH }

\* The rank of a fork in the order genesis, altair, bellatrix.
ForkRank(f) == CASE f = "genesis" -> 0 [] f = "altair" -> 1 [] f = "bellatrix" -> 2

\* The answer is the version of the latest fork of the set.
AnswersLatestOf(forks) ==
    \E f \in forks :
        /\ ret.result = local.forks[f].fork_version
        /\ \A g \in forks : ForkRank(g) <= ForkRank(f)

\* C27, as stated: the answer is the version of the latest fork whose
\* activation epoch is at most slot/32; the first slot of the altair or of the
\* bellatrix epoch yields that fork's version and slot 0 the genesis version.
C27_ForkVersionAsStated ==
    ForkVersionReturned =>
        /\ AnswersLatestOf(ActiveForks)
        /\ local.slot = local.forks.altair.epoch * SLOTS_PER_EPOCH
               => ret.result = "altair"
        /\ local.slot = local.forks.bellatrix.epoch * SLOTS_PER_EPOCH
               => ret.result = "bellatrix"
        /\ local.slot = 0 => ret.result = "genesis"

\* C27: the answer is the version of the latest fork, in the order genesis,
\* altair, bellatrix, among genesis (whatever its configured epoch) and those
\* of altair and bellatrix whose activation epoch is at most slot/32. The
\* first slot of the bellatrix epoch yields the bellatrix version, the first
\* slot of the altair epoch the altair version when altair activates before
\* bellatrix, and slot 0 the genesis version when neither altair nor
\* bellatrix activates at epoch 0. With genesis at epoch 0 and the three
\* epochs strictly increasing, all of the statement above holds.
C27_ForkVersion ==
    ForkVersionReturned =>
        /\ AnswersLatestOf(ActiveForks \cup {"genesis"})
        /\ local.slot = local.forks.bellatrix.epoch * SLOTS_PER_EPOCH
               => ret.result = "bellatrix"
        /\ (/\ local.slot = local.forks.altair.epoch * SLOTS_PER_EPOCH
            /\ local.forks.altair.epoch < local.forks.bellatrix.epoch)
               => ret.result = "altair"
        /\ (/\ local.slot = 0
            /\ local.forks.altair.epoch > 0
            /\ local.forks.bellatrix.epoch > 0)
               => ret.result = "genesis"
        /\ (/\ local.forks.genesis.epoch = 0
            /\ local.forks.altair.epoch > 0
            /\ local.forks.altair.epoch < local.forks.bellatrix.epoch)
               => C27_ForkVersionAsStated

\* With altair active from epoch 0 and bellatrix later, slot 0 has the altair
\* version.
C27_AltairAtSlotZero ==
    /\ ForkVersionReturned
    /\ local.slot = 0
    /\ local.forks.genesis.epoch = 0
    /\ local.forks.altair.epoch = 0
    /\ local.forks.bellatrix.epoch > 0
    /\ ret.result = "altair"

\* Nothing is sent to a subscriber of either channel in the step.
NothingSent ==
    /\ new_block_emitors' = new_block_emitors
    /\ new_client_emitors' = new_client_emitors

\* C30: in the committee block of an advance tick (the next sync committee is
\* still absent after the finality update was applied), an only fetched
\* update that passes verification is applied and the tick returns Ok at
\* once, sending nothing on either channel and leaving the cache of finality
\* updates as it was; an only update that fails verification is not applied
\* and the tick goes on to the emission instead of failing.
C30_CommitteeBlock ==
    /\ [](pc = "advance_committee" =>
            /\ is_none(store.next_sync_committee)
            /\ \A update \in ServedUpdates, now \in Times :
                 LET out == committee_block(Client, Some(<< update >>), now)
                 IN  IF verify_update(store, update, now) = "Ok"
                     THEN /\ out.outcome = "return"
                          /\ out.client = apply_update(Client, update)
                     ELSE /\ out.outcome = "continue"
                          /\ out.client = Client)
    /\ [][ pc = "advance_committee" /\ pc' = "idle" /\ ret'.result = "Ok" =>
             /\ NothingSent
             /\ store'.finality_updates = store.finality_updates
             /\ \E update \in ServedUpdates, now \in Times :
                  /\ verify_update(store, update, now) = "Ok"
                  /\ store' = apply_update(Client, update).store
                  /\ last_checkpoint' = apply_update(Client, update).last_checkpoint ]_vars
    /\ [][ pc = "advance_committee" /\ pc' = "advance_emit" =>
             NothingSent /\ store' = store /\ local' = local ]_vars
    /\ [][ pc = "advance_committee" /\ pc' = "idle" /\ ret'.result # "Ok" =>
             NothingSent /\ store' = store ]_vars

\* A tick has returned from the committee block: the store has a next sync
\* committee that no finality update could give it, its cache is empty, and
\* the subscribers of both channels have received nothing.
C30_ReturnedFromCommitteeBlock ==
    /\ pc = "idle"
    /\ ret = Ret("advance", "Ok")
    /\ is_some(store.next_sync_committee)
    /\ store.finality_updates = << >>
    /\ new_block_emitors # << >>
    /\ new_client_emitors # << >>
    /\ \A i \in DOMAIN new_block_emitors : new_block_emitors[i].queue = << >>
    /\ \A i \in DOMAIN new_client_emitors : new_client_emitors[i].queue = << >>

\* A step in which an advance tick returns Ok, the finalized slot having
\* advanced in the tick by at most MAX_EMITTED_HEADERS slots.
TickAdvancedAndReturnedOk ==
    /\ pc \in {"advance_committee", "advance_emit"}
    /\ pc' = "idle"
    /\ ret' = Ret("advance", "Ok")
    /\ store'.finalized_header.slot > local.prev
    /\ store'.finalized_header.slot - local.prev <= MAX_EMITTED_HEADERS

\* The header get_finality_update gives for a slot when the tick emits: the
\* cached one, else the one the endpoint answers, else the empty sentinel.
EmittedHeader(slot, oracle) ==
    IF slot \in DOMAIN store'.finality_updates
    THEN store'.finality_updates[slot].finalized_header
    ELSE IF oracle[slot] = "canon" THEN Canon(slot) ELSE Header(slot, "default")

\* The headers of the slots from..to-1 at the emission.
HeadersOfRange(from, to, oracle) ==
    [i \in 1..(to - from) |-> EmittedHeader(from + i - 1, oracle)]

\* The endpoint fails for no slot of from..to-1 that the cache lacks.
AnswersRange(from, to, oracle) ==
    \A s \in from..(to - 1) :
        s \in DOMAIN store'.finality_updates \/ oracle[s] # "err"

AllEmpty(headers) == \A i \in DOMAIN headers : is_empty(headers[i])

\* Every subscriber of the new-finalized-headers channel is sent `batch` in
\* the step.
BatchSent(batch) ==
    \A e \in DOMAIN new_block_emitors :
        new_block_emitors'[e] =
            [new_block_emitors[e] EXCEPT !.queue = Append(@, batch)]

\* C29, as stated: in an advance tick that returns Ok after the finalized
\* slot advanced from prev to f, f - prev at most the cap, every subscriber is
\* sent one batch that holds the header of each slot of [prev, f), unless all
\* of those headers are empty sentinels, and then nothing is sent.
C29_EveryAdvanceEmitsAsStated ==
    [][ TickAdvancedAndReturnedOk =>
          \E oracle \in HeaderOracles :
            LET prev == local.prev
                f == store'.finalized_header.slot
                headers == HeadersOfRange(prev, f, oracle)
            IN  /\ AnswersRange(prev, f, oracle)
                /\ IF AllEmpty(headers)
                   THEN new_block_emitors' = new_block_emitors
                   ELSE \E batch \in { headers, Append(headers, EmittedHeader(f, oracle)) } :
                            BatchSent(batch) ]_vars

\* C29: in an advance tick that returns Ok from the emission (not from the
\* committee block, which sends nothing) after the finalized slot advanced
\* from prev to f, f - prev at most the cap, the batch is the header of each
\* slot of [prev, f), followed by the header of f when prev and f are in the
\* same epoch and the cache holds f; every subscriber is sent this batch,
\* unless all the headers of the batch are empty sentinels, and then nothing
\* is sent.
C29_AdvanceEmitsRange ==
    /\ [][ TickAdvancedAndReturnedOk /\ pc = "advance_emit" =>
             \E oracle \in HeaderOracles :
               LET prev == local.prev
                   f == store'.finalized_header.slot
                   headers == HeadersOfRange(prev, f, oracle)
                   batch == IF /\ calc_epoch(prev) = calc_epoch(f)
                               /\ f \in DOMAIN store'.finality_updates
                            THEN Append(headers, EmittedHeader(f, oracle))
                            ELSE headers
               IN  /\ AnswersRange(prev, f, oracle)
                   /\ IF AllEmpty(batch)
                      THEN new_block_emitors' = new_block_emitors
                      ELSE BatchSent(batch) ]_vars
    /\ [][ TickAdvancedAndReturnedOk /\ pc = "advance_committee" =>
             new_block_emitors' = new_block_emitors ]_vars

\* A subscriber was sent a batch of an empty sentinel followed by the header
\* of the finalized slot, both of the same epoch.
C29_SentinelThenFinalized ==
    \E e \in DOMAIN new_block_emitors :
        \E i \in DOMAIN new_block_emitors[e].queue :
            LET batch == new_block_emitors[e].queue[i]
            IN  /\ Len(batch) = 2
                /\ is_empty(batch[1])
                /\ ~is_empty(batch[2])
                /\ calc_epoch(batch[1].slot) = calc_epoch(batch[2].slot)
                /\ batch[2].slot = store.finalized_header.slot
                /\ pc = "idle"

\* Some consumer has dropped its receivers.
SomeReceiverClosed == \E e \in DOMAIN new_block_emitors : new_block_emitors[e].closed

\* Whether the fetches of the emission succeed when get_header answers
\* `oracle`: the gap filling of store_finality_update and the reads of
\* start_emiting_headers are the only calls of the emission that can fail.
FetchesSucceed(oracle) ==
    LET advanced == store.finalized_header.slot > local.prev
        stored == IF advanced
                  THEN store_finality_update(store, unwrap(local.fu), TRUE, oracle)
                  ELSE Ok(store)
        emitted == IF advanced /\ stored.ok
                   THEN start_emiting_headers(
                            stored.val,
                            begin_slot(local.prev, stored.val.finalized_header.slot),
                            stored.val.finalized_header.slot, oracle)
                   ELSE Ok(<< >>)
    IN  stored.ok /\ emitted.ok

\* C28: with a closed receiver among the subscribers, the emission of an
\* advance tick returns Ok exactly when its fetches succeed (it does when the
\* endpoint answers every header); the closed channels stay as they are;
\* every consumer that holds its receivers gets the initial header on the
\* initial-checkpoint channel and, when the tick returns Ok after the
\* finalized slot advanced, the batch of the tick on the
\* new-finalized-headers channel, as if no receiver were closed.
C28_ClosedReceiverOnlyDropsItsValue ==
    /\ [](pc = "advance_emit" /\ SomeReceiverClosed =>
            FetchesSucceed([s \in Slots |-> "canon"]))
    /\ [][ pc = "advance_emit" /\ pc' = "idle" /\ SomeReceiverClosed =>
             \E oracle \in HeaderOracles :
                 ret' = Ret("advance", IF FetchesSucceed(oracle) THEN "Ok" ELSE "Err") ]_vars
    /\ [][ pc = "advance_emit" /\ pc' = "idle" =>
             \A e \in DOMAIN new_block_emitors \ LiveSubscribers :
                 /\ new_block_emitors'[e] = new_block_emitors[e]
                 /\ new_client_emitors'[e] = new_client_emitors[e] ]_vars
    /\ [][ pc = "advance_emit" /\ pc' = "idle" /\ DOMAIN store.finality_updates # {} =>
             \A e \in LiveSubscribers :
                 LET queue == new_client_emitors'[e].queue
                 IN  /\ queue # << >>
                     /\ queue[Len(queue)] =
                            store.finality_updates[MinKey(store.finality_updates)]
                                .finalized_header
                     /\ Len(queue) <= Len(new_client_emitors[e].queue) + 1 ]_vars
    /\ [][ TickAdvancedAndReturnedOk /\ pc = "advance_emit" =>
             \E oracle \in HeaderOracles :
               LET prev == local.prev
                   f == store'.finalized_header.slot
                   headers == HeadersOfRange(prev, f, oracle)
                   batch == IF /\ calc_epoch(prev) = calc_epoch(f)
                               /\ f \in DOMAIN store'.finality_updates
                            THEN Append(headers, EmittedHeader(f, oracle))
                            ELSE headers
               IN  /\ AnswersRange(prev, f, oracle)
                   /\ \A e \in LiveSubscribers :
                        new_block_emitors'[e] =
                            IF AllEmpty(batch) THEN new_block_emitors[e]
                            ELSE [new_block_emitors[e] EXCEPT
                                      !.queue = Append(@, batch)] ]_vars

\* A tick has returned Ok with the first consumer's receivers closed, and the
\* second consumer has received the initial header and a batch.
C28_SentPastClosedReceiver ==
    /\ pc = "idle"
    /\ ret = Ret("advance", "Ok")
    /\ Len(new_block_emitors) = 2
    /\ new_block_emitors[1].closed
    /\ new_client_emitors[1].closed
    /\ new_block_emitors[2].queue # << >>
    /\ new_client_emitors[2].queue # << >>

\* The update is short of two thirds of the committee, or it is neither newer
\* than the store's finalized slot nor the one that brings the missing next
\* committee.
NotToBeApplied(update) ==
    \/ update.sync_committee_bits * 3 < SYNC_COMMITTEE_SIZE * 2
    \/ /\ finalized_slot_or_zero(update) <= store.finalized_header.slot
       /\ ~update_has_finalized_next_committee(store, update)

\* C31: on an update that is not to be applied, apply_generic_update leaves
\* last_checkpoint and the store as they are, except that
\* current_max_active_participants becomes the larger of its value and of the
\* number of set bits.
C31_UnappliedUpdateOnlyRaisesMaximum ==
    \A update \in AppliedGenericUpdates :
        NotToBeApplied(update) =>
            apply_generic_update(Client, update) =
                [ store |-> [store EXCEPT !.current_max_active_participants =
                                              Max(@, update.sync_committee_bits)],
                  last_checkpoint |-> last_checkpoint ]

\* Sync has applied an update of 341 participants to the bootstrapped store:
\* the maximum is 341 and the next committee is still absent.
C31_WeakUpdateRaisedMaximum ==
    /\ pc = "sync_apply"
    /\ store.current_max_active_participants = 341
    /\ is_none(store.next_sync_committee)
    /\ store.finalized_header = Canon(CheckpointSlot)
    /\ store.current_sync_committee = calc_sync_period(CheckpointSlot)

\* A step in which an advance tick ends, having advanced the finalized slot
\* with the next sync committee present and the cache not empty.
TickAdvancedWithCache ==
    /\ pc = "advance_emit"
    /\ pc' = "idle"
    /\ store.finalized_header.slot > local.prev
    /\ is_some(store.next_sync_committee)
    /\ DOMAIN store.finality_updates # {}

\* The slot was evicted from the cache, or would have been: the cache is full
\* and the slot is below its first key.
Evicted(cache, slot) ==
    /\ Cardinality(DOMAIN cache) = MAX_CACHED_UPDATES
    /\ slot < MinKey(cache)

\* The cache after the tick holds every slot from the last one it held before
\* up to the finalized slot, barring eviction, and at the finalized slot the
\* update made of the finality update and of the store's next committee.
CacheContinuousAfterTick ==
    LET last == MaxKey(store.finality_updates)
        f == store'.finalized_header.slot
        cache == store'.finality_updates
    IN  /\ \A slot \in last..f : slot \in DOMAIN cache \/ Evicted(cache, slot)
        /\ \/ Evicted(cache, f)
           \/ /\ f \in DOMAIN cache
              /\ cache[f] = from_finality_update(
                                unwrap(local.fu),
                                unwrap(store.next_sync_committee),
                                unwrap(store.next_sync_committee_branch))

\* C32: after an advance tick that advanced the finalized slot while the next
\* sync committee is present and the cache was not empty, the cache holds an
\* entry for every slot from the previously last cached slot up to the new
\* finalized slot, barring eviction, the entry at the new finalized slot
\* being the update synthesized from the finality update and the store's
\* next committee.
C32_CacheContinuousAfterAdvance ==
    [][ TickAdvancedWithCache => CacheContinuousAfterTick ]_vars

\* The same for the ticks that return Ok: it holds, the ticks that break it
\* are those whose gap filling fails.
CacheContinuousAfterOkTick ==
    [][ TickAdvancedWithCache /\ ret' = Ret("advance", "Ok") =>
          CacheContinuousAfterTick ]_vars

\* The generic updates the verifier is given: by LightClient::verify, by sync
\* and by advance.
VerifiedGenericUpdates ==
    { GenericFromUpdate(u) : u \in SubmittedUpdates }
        \cup { GenericFromFinalityUpdate(unwrap(r)) : r \in FinalityResponses \ {None} }

\* verify_generic_update on the store passes every rule before the choice of
\* the signing committee.
ReachesSignatureStep(update, now) ==
    /\ update.sync_committee_bits # 0
    /\ valid_time(update, now)
    /\ valid_period(store, update)
    /\ ~is_not_relevant(store, update)
    /\ ~finality_proof_fails(update)
    /\ ~next_committee_proof_fails(update)

\* C33: whenever verification reaches the signature step with a signature
\* period other than the store's, store.next_sync_committee is present: the
\* unwrap that selects the next committee never meets None.
C33_NextCommitteePresentAtSignature ==
    \A update \in VerifiedGenericUpdates, now \in Times :
        /\ ReachesSignatureStep(update, now)
        /\ calc_sync_period(update.signature_slot)
               # calc_sync_period(store.finalized_header.slot)
        => is_some(store.next_sync_committee)

\* LightClient::verify has accepted an update, and the store is one on which
\* an update signed in the next period verifies against the next committee.
C33_VerifiedAgainstNextCommittee ==
    /\ ret = Ret("verify", "Ok")
    /\ is_some(store.next_sync_committee)
    /\ \E update \in SubmittedUpdates, now \in Times :
         /\ calc_sync_period(update.signature_slot)
                = calc_sync_period(store.finalized_header.slot) + 1
         /\ verify_update(store, update, now) = "Ok"

\* C35: whenever an advance tick returns through the committee block (the
\* next committee was absent, the fetched period update verified and was
\* handed to apply_update, the tick returned Ok at once),
\* store.next_sync_committee is present afterwards.
C35_EarlyReturnHasCommittee ==
    [][ pc = "advance_committee" /\ pc' = "idle" /\ ret' = Ret("advance", "Ok") =>
          is_some(store'.next_sync_committee) ]_vars

(* ------------------- C36: the initial header with queries -------------- *)

\* The client with a consumer of its two channels and the callers of
\* LightClient::get_finality_update.
NextReemit ==
    \/ SyncBootstrap
    \/ SyncGetUpdates
    \/ SyncApplyUpdate
    \/ SyncFinality
    \/ AdvanceFinality
    \/ AdvanceCommittee
    \/ AdvanceEmit
    \/ Subscribe
    \/ GetFinalityUpdate

SpecReemit == Init /\ [][NextReemit]_vars

\* The cache has not reached its capacity: the trimming loop of
\* store_finality_update, the only place that removes entries, leaves
\* MAX_CACHED_UPDATES entries when it removes one, and entries are removed
\* nowhere else, so no eviction has occurred yet.
NothingEvictedYet == Cardinality(DOMAIN store.finality_updates) < MAX_CACHED_UPDATES

\* The headers a consumer was sent on the initial-checkpoint channel are all
\* the same header, and not a sentinel.
OneInitialHeader(e) ==
    /\ Len(new_client_emitors[e].queue) <= 1
    /\ \A i \in DOMAIN new_client_emitors[e].queue :
           new_client_emitors[e].queue[i].body # "default"

\* C36: as long as no cache eviction has occurred, every header sent on the
\* initial-checkpoint channel, on any tick and to any subscriber, is the same
\* header and never an empty sentinel header, whatever public queries run
\* between ticks.
C36_InitialHeaderIsOneHeader ==
    NothingEvictedYet => \A e \in DOMAIN new_client_emitors : OneInitialHeader(e)

(* ------------------- C38: no slot delivered twice ---------------------- *)

\* C38: no slot's header is delivered twice to the same subscriber of the
\* new-finalized-headers channel: the ranges emitted by successive advance
\* ticks do not overlap.
C38_NoSlotDeliveredTwice ==
    \A e \in DOMAIN new_block_emitors :
        LET slots == ReceivedSlots(new_block_emitors[e].queue)
        IN  \A i, j \in DOMAIN slots : i # j => slots[i] # slots[j]

(* ------------------- C39: committee and branch together ---------------- *)

\* C39: in every reachable state store.next_sync_committee is present if and
\* only if store.next_sync_committee_branch is present, so that
\* store_finality_update, which unwraps both after checking only the
\* committee, never unwraps an absent branch.
C39_CommitteeIffBranch ==
    is_some(store.next_sync_committee) <=> is_some(store.next_sync_committee_branch)

\* An advance tick has stored its finality update with the committee and the
\* branch it unwrapped from the store.
C39_StoredWithBranch ==
    /\ pc = "idle"
    /\ ret = Ret("advance", "Ok")
    /\ is_some(store.next_sync_committee)
    /\ is_some(store.next_sync_committee_branch)
    /\ store.finalized_header.slot \in DOMAIN store.finality_updates
    /\ LET update == store.finality_updates[store.finalized_header.slot]
       IN  /\ update.attested_header # DefaultHeader
           /\ update.next_sync_committee = unwrap(store.next_sync_committee)
           /\ update.next_sync_committee_branch = unwrap(store.next_sync_committee_branch)

(* ------------------- C37: the committee of the store period ------------ *)

\* bootstrap has succeeded: sync is past it, or the loop is running.
Bootstrapped == pc \notin {"init", "failed"}

\* C37: in every reachable state after bootstrap, current_sync_committee is
\* the committee of the period of store.finalized_header.slot (the bootstrap
\* and every accepted update carrying the genuine committees), so a signature
\* whose period is the store's period is checked against that period's
\* committee.
C37_CurrentCommitteeOfStorePeriod ==
    Bootstrapped =>
        /\ store.current_sync_committee = calc_sync_period(store.finalized_header.slot)
        /\ \A update \in AppliedGenericUpdates :
               calc_sync_period(update.signature_slot)
                   = calc_sync_period(store.finalized_header.slot)
               => signing_committee(store, update)
                      = calc_sync_period(update.signature_slot)

\* The finalized header has moved into the period after the checkpoint's, the
\* committees were rotated, and an update signed in that period verifies.
C37_RotatedIntoNextPeriod ==
    /\ pc = "idle"
    /\ calc_sync_period(store.finalized_header.slot)
           = calc_sync_period(CheckpointSlot) + 1
    /\ store.current_sync_committee = calc_sync_period(CheckpointSlot) + 1
    /\ \E update \in AppliedGenericUpdates, now \in Times :
         /\ calc_sync_period(update.signature_slot)
                = calc_sync_period(store.finalized_header.slot)
         /\ verify_generic_update(store, update, now) = "Ok"

(* ------------------- C34: only verified headers are published ---------- *)

\* The tick with endpoints that may answer get_header with any header.
AdvanceEmitUntrusted == AdvanceEmitWith(UntrustedHeaderOracles)

\* The client with a consumer of its two channels, its endpoints untrusted.
NextUntrusted ==
    \/ SyncBootstrap
    \/ SyncGetUpdates
    \/ SyncApplyUpdate
    \/ SyncFinality
    \/ AdvanceFinality
    \/ AdvanceCommittee
    \/ AdvanceEmitUntrusted
    \/ Subscribe

SpecUntrusted == Init /\ [][NextUntrusted]_vars

\* The update passes the rules of verify_generic_update that do not depend on
\* the store's finalized slot, its signature being checked against the
\* committee of its signature period.
PassesProofs(update) ==
    /\ update.sync_committee_bits # 0
    /\ ~finality_proof_fails(update)
    /\ ~next_committee_proof_fails(update)
    /\ verify_sync_committee_signature(calc_sync_period(update.signature_slot),
                                       update.attested_header,
                                       update.sync_committee_signature)

\* The finalized headers of the updates the endpoints serve that can pass
\* verify_generic_update.
VerifiedFinalizedHeaders ==
    { unwrap(update.finalized_header) :
        update \in { u \in { GenericFromUpdate(u) : u \in ServedUpdates }
                          \cup { GenericFromFinalityUpdate(unwrap(r)) :
                                     r \in FinalityResponses \ {None} } :
                     PassesProofs(u) } }

\* C34: every non-empty header sent on the new-finalized-headers channel is
\* the finalized header of an update that passed verify_generic_update; a
\* header obtained from an endpoint without a verified proof is never
\* published to subscribers.
C34_OnlyVerifiedHeadersPublished ==
    \A e \in DOMAIN new_block_emitors :
        \A i \in DOMAIN new_block_emitors[e].queue :
            \A j \in DOMAIN new_block_emitors[e].queue[i] :
                LET sent == new_block_emitors[e].queue[i][j]
                IN  ~is_empty(sent) => sent \in VerifiedFinalizedHeaders

(* ------------------- C40: the loop releases the lock ------------------- *)

\* The endpoints fail every get_header call.
FailingHeaders == { [s \in Slots |-> "err"] }

\* The last step of a tick, the get_header calls it makes failing.
AdvanceEmitFailing == AdvanceEmitWith(FailingHeaders)

\* The loop of LightClient::bootstrap with RPC calls that terminate: an awaited
\* call returns, with an answer or with an error. Every step of
\* AdvanceCommittee and of AdvanceEmit ends the await it models, so weak
\* fairness on a step that is possible at every such await says that the
\* await ends; for the get_header calls it is stated on the step whose calls
\* fail, which is possible whatever the endpoints hold.
SpecLoop ==
    /\ Init /\ [][NextTick]_vars
    /\ WF_vars(AdvanceCommittee)
    /\ WF_vars(AdvanceEmitFailing)

\* The loop is inside advance, past its first await.
InsideAdvance == pc \in {"advance_committee", "advance_emit"}

\* The loop sleeps between two ticks.
Sleeping == pc = "idle"

=============================================================================
